---- MODULE Spec2Model ----
(***************************************************************************)
(* Model of the greenlight-backend account and node-identity lifecycle:    *)
(* the users table (models/user.rs), the signup/login handlers             *)
(* (handlers/auth.rs), the node handlers (handlers/node.rs), the auth      *)
(* middleware, and the CryptoService / JwtService primitives they call.    *)
(* The WebSocket connection (handlers/websocket.rs) and the balance sums   *)
(* of GreenlightService::get_balance are modelled on their own.            *)
(*                                                                         *)
(* Each HTTP request is a process held in one slot of `req`.  A handler is *)
(* split at the .await points that touch shared state (the database) or    *)
(* the Greenlight scheduler, so that every interleaving of two requests'   *)
(* database reads and writes is a behaviour of the model.                  *)
(*                                                                         *)
(* Strings and byte vectors are modelled structurally (as records), so     *)
(* that base64, encryption and hashing are conversions with a checkable    *)
(* inverse instead of identities.                                          *)
(***************************************************************************)
EXTENDS Integers, Sequences, FiniteSets, TLC

VARIABLES
    users,   \* the rows of table `users`, in insertion order (models/user.rs User)
    req,     \* the in-flight HTTP requests, one record per slot
    now,     \* Utc::now().timestamp(): seconds since the server started
    cx,      \* one call of a service function on its own: its inputs and results
    ws       \* one WebSocket connection: the locals of websocket_connection

vars == <<users, req, now, cx, ws>>

(***************************************************************************)
(* Bounds                                                                  *)
(***************************************************************************)
MaxUsers == 2          \* at most this many rows are inserted

\* the requests that can be in flight at once
Slots == {"r1", "r2"}

(***************************************************************************)
(* Option<T>                                                               *)
(***************************************************************************)
None == [some |-> FALSE]
Some(x) == [some |-> TRUE, v |-> x]
IsSome(o) == o.some

(***************************************************************************)
(* Result<T, AppError> and the HTTP response of an error (error.rs)        *)
(***************************************************************************)
Ok(x) == [ok |-> TRUE, v |-> x]
Err(kind, msg) == [ok |-> FALSE, kind |-> kind, msg |-> msg]

\* #[error("...: {0}")] prefixes of AppError's Display
Display(e) ==
    CASE e.kind = "Database"       -> <<"Database error: ", e.msg>>
      [] e.kind = "Authentication" -> <<"Authentication error: ", e.msg>>
      [] e.kind = "Authorization"  -> <<"Authorization error: ", e.msg>>
      [] e.kind = "Validation"     -> <<"Validation error: ", e.msg>>
      [] e.kind = "Greenlight"     -> <<"Greenlight error: ", e.msg>>
      [] e.kind = "Cryptography"   -> <<"Cryptography error: ", e.msg>>
      [] e.kind = "Internal"       -> <<"Internal server error: ", e.msg>>
      [] e.kind = "NotFound"       -> <<"Not found: ", e.msg>>
      [] e.kind = "BadRequest"     -> <<"Bad request: ", e.msg>>

\* impl IntoResponse for AppError: (status, ErrorResponse{status:"error", message})
into_response(e) ==
    CASE e.kind = "Authentication" -> [status |-> 401, body |-> [status |-> "error", message |-> Display(e)]]
      [] e.kind = "Authorization"  -> [status |-> 403, body |-> [status |-> "error", message |-> Display(e)]]
      [] e.kind = "Validation"     -> [status |-> 400, body |-> [status |-> "error", message |-> Display(e)]]
      [] e.kind = "NotFound"       -> [status |-> 404, body |-> [status |-> "error", message |-> Display(e)]]
      [] e.kind = "BadRequest"     -> [status |-> 400, body |-> [status |-> "error", message |-> Display(e)]]
      [] OTHER                     -> [status |-> 500, body |-> [status |-> "error",
                                            message |-> <<"Internal server error">>]]

(***************************************************************************)
(* Request inputs                                                          *)
(***************************************************************************)
\* public_key strings a client may send
PublicKeys == {"", "pk1", "pk2"}

\* the keys sent where the whole lifecycle of one account is explored
LifecycleKeys == {"", "pk1"}

\* passwords a client may send; "U+00E9 x4" stands for four times the character U+00E9, which
\* UTF-8 encodes in 2 bytes each: 4 characters, 8 bytes
Passwords == {"password123", "hunter2", "U+00E9 x4"}

\* further strings a caller may pass as the password of encrypt / decrypt:
\* "password123" followed by the character U+0000, a password of 70 bytes,
\* and the text whose bytes are the SHA-256 digest of that password
CryptoPasswords ==
    Passwords \cup {"password123 U+0000", "seventy-byte password", "sha256(seventy-byte password)"}

\* str::len(): the length in BYTES of the UTF-8 encoding
ByteLen(pw) ==
    CASE pw = "password123" -> 11
      [] pw = "hunter2"     -> 7
      [] pw = "U+00E9 x4"        -> 8
      [] pw = "password123 U+0000" -> 12
      [] pw = "seventy-byte password" -> 70
      [] pw = "sha256(seventy-byte password)" -> 32

\* str::chars().count(): the number of characters
CharCount(pw) ==
    CASE pw = "password123" -> 11
      [] pw = "hunter2"     -> 7
      [] pw = "U+00E9 x4"        -> 4
      [] pw = "password123 U+0000" -> 12
      [] pw = "seventy-byte password" -> 70
      [] pw = "sha256(seventy-byte password)" -> 32

(***************************************************************************)
(* Byte vectors.  A Vec<u8> / &[u8] is a sequence of chunks; a chunk is    *)
(* `len` bytes whose content is named by the record `v`.  Concatenation is *)
(* \o, and a slice that cuts a chunk yields a chunk that names the cut.    *)
(***************************************************************************)
Bytes(v, len) == <<[v |-> v, len |-> len]>>

RECURSIVE BytesLen(_)
\* Vec::len / slice::len
BytesLen(b) == IF b = <<>> THEN 0 ELSE Head(b).len + BytesLen(Tail(b))

RECURSIVE Take(_, _)
\* &data[0..n], for n <= data.len()
Take(b, n) ==
    IF n = 0 \/ b = <<>> THEN <<>>
    ELSE IF Head(b).len <= n THEN <<Head(b)>> \o Take(Tail(b), n - Head(b).len)
    ELSE Bytes([t |-> "slice", of |-> Head(b).v, from |-> 0, to |-> n], n)

RECURSIVE Drop(_, _)
\* &data[n..], for n <= data.len()
Drop(b, n) ==
    IF n = 0 \/ b = <<>> THEN b
    ELSE IF Head(b).len <= n THEN Drop(Tail(b), n - Head(b).len)
    ELSE Bytes([t |-> "slice", of |-> Head(b).v, from |-> n, to |-> Head(b).len],
               Head(b).len - n) \o Tail(b)

(***************************************************************************)
(* The constants of services/crypto.rs                                     *)
(***************************************************************************)
PBKDF2_ITERATIONS == 100000
AES_KEY_SIZE == 32
NONCE_SIZE == 12
SALT_SIZE == 32

(***************************************************************************)
(* Randomness (OsRng): the values a fresh draw can take                    *)
(***************************************************************************)
\* the salt and the nonce drawn by encrypt: 32 and 12 random bytes
RandomSalt(id) == Bytes([t |-> "rand", id |-> id], SALT_SIZE)
RandomNonce(id) == Bytes([t |-> "rand", id |-> id], NONCE_SIZE)

\* the draws of the requests: no handler compares the draws of two calls, so
\* one value stands for each of them
Salts == {RandomSalt("s1")}
Nonces == {RandomNonce("n1")}
Entropies == {"e1"}

\* the draws of the encrypt calls examined on their own
CryptoSalts == {RandomSalt("s1"), RandomSalt("s2")}
CryptoNonces == {RandomNonce("n1"), RandomNonce("n2")}

(***************************************************************************)
(* Texts                                                                   *)
(***************************************************************************)
\* general_purpose::STANDARD.encode / decode
B64Encode(bytes) == [fmt |-> "b64", bytes |-> bytes]
B64Decode(s) == IF s.fmt = "b64" THEN Ok(s.bytes)
                ELSE Err("Base64", "decode error")

\* a string that is not base64, and the base64 of fewer than 44 bytes
NotBase64 == [fmt |-> "text", s |-> "!!not-base64!!"]
ShortBlob == B64Encode(Bytes([t |-> "raw"], 10))

\* a text that is not a BIP39 mnemonic, and the empty text
NotAMnemonic == [fmt |-> "text", s |-> "not a mnemonic"]
EmptyText == [fmt |-> "text", s |-> ""]

\* bytes that are not the UTF-8 encoding of any text
NotUtf8 == [fmt |-> "binary", len |-> 4]

\* Mnemonic::from_entropy(entropy).to_string()
MnemonicFromEntropy(e) == [fmt |-> "mnemonic", entropy |-> e]

\* Mnemonic::parse_in_normalized(Language::English, m)
ParseMnemonic(m) == IF m.fmt = "mnemonic" THEN Ok(m)
                    ELSE Err("Bip39", "parse error")

\* str::as_bytes().len() of the texts of the model: a phrase of 24 words of
\* the English word list (here one of 152 bytes), the JSON of
\* DeviceCredentials ({"creds":[..]}, here 3 characters and a comma per
\* byte), and the literal texts
StrLen(text) ==
    CASE text.fmt = "mnemonic" -> 152
      [] text.fmt = "json"     -> 11 + 4 * BytesLen(text.creds)
      [] text.fmt = "binary"   -> text.len
      [] text.fmt = "text"     -> IF text.s = "" THEN 0 ELSE 14

\* String::from_utf8
IsUtf8(text) == text.fmt # "binary"

(***************************************************************************)
(* CryptoService (services/crypto.rs)                                      *)
(***************************************************************************)
\* hash_password: the PHC string of Argon2::default() over (password, salt)
hash_password(password, salt) ==
    Ok([fmt |-> "phc", alg |-> "argon2id", salt |-> salt, pw |-> password])

\* verify_password that takes a hash that parses for a hash that verifies
verify_password_parse_only(password, hash) ==
    IF hash.fmt # "phc"
    THEN Err("Cryptography", "Invalid hash format")
    ELSE Ok(TRUE)

\* the algorithm identifiers of a PHC string that Argon2::verify_password
\* accepts
Argon2Idents == {"argon2d", "argon2i", "argon2id"}

\* verify_password that propagates the verifier's error on a mismatch (`?` in
\* place of is_ok)
verify_password_propagating(password, hash) ==
    IF hash.fmt # "phc"
    THEN Err("Cryptography", "Invalid hash format")
    ELSE IF hash.alg \in Argon2Idents /\ hash.pw = password
    THEN Ok(TRUE)
    ELSE Err("Cryptography", "Password verification failed")

\* verify_password that takes a string that does not parse for a mismatch
verify_password_unparsed_is_mismatch(password, hash) ==
    IF hash.fmt # "phc"
    THEN Ok(FALSE)
    ELSE Ok(hash.alg \in Argon2Idents /\ hash.pw = password)

\* verify_password: a string that does not parse as a PHC hash is an error
\* (PasswordHash::new); a parsed hash verifies exactly the password it was
\* computed from by Argon2, and every error of Argon2's verifier (mismatch,
\* another algorithm) is `false` (is_ok)
verify_password(password, hash) ==
    IF hash.fmt # "phc"
    THEN Err("Cryptography", "Invalid hash format")
    ELSE Ok(hash.alg \in Argon2Idents /\ hash.pw = password)

\* generate_mnemonic: 32 bytes of entropy; from_entropy accepts 32 bytes
generate_mnemonic(entropy) == Ok(MnemonicFromEntropy(entropy))

\* the block of HMAC-SHA256 and the tag of AES-256-GCM, in bytes
HMAC_BLOCK_SIZE == 64
TAG_SIZE == 16

\* Hmac::<Sha256>::new_from_slice(password): the key block of HMAC.  A key
\* longer than the block is replaced by its SHA-256 digest, and a key shorter
\* than the block is padded with zero bytes, so trailing zero bytes do not
\* change the block
HmacKey(password) ==
    IF ByteLen(password) > HMAC_BLOCK_SIZE
    THEN "sha256(seventy-byte password)"
    ELSE IF password = "password123 U+0000" THEN "password123"
    ELSE password

\* derive_key that leaves the salt out of the derivation
derive_key_unsalted(password, salt) ==
    [pw |-> HmacKey(password), salt |-> <<>>, iter |-> PBKDF2_ITERATIONS]

\* derive_key: PBKDF2-HMAC-SHA256(password, salt, PBKDF2_ITERATIONS)
derive_key(password, salt) ==
    [pw |-> HmacKey(password), salt |-> salt, iter |-> PBKDF2_ITERATIONS]

\* Aes256Gcm::encrypt / decrypt: the ciphertext is the plaintext's length
\* plus the tag, and opens only under the key and nonce it was sealed with
AeadSeal(key, nonce, data) ==
    Bytes([t |-> "sealed", key |-> key, nonce |-> nonce, data |-> data],
          StrLen(data) + TAG_SIZE)
\* AeadOpen that does not verify the tag: any sealed chunk opens under any key
AeadOpen_unauthenticated(key, nonce, ciphertext) ==
    IF /\ Len(ciphertext) = 1
       /\ ciphertext[1].v.t = "sealed"
    THEN Ok(ciphertext[1].v.data)
    ELSE Err("Aead", "aead::Error")

AeadOpen(key, nonce, ciphertext) ==
    IF /\ Len(ciphertext) = 1
       /\ ciphertext[1].v.t = "sealed"
       /\ ciphertext[1].v.key = key
       /\ ciphertext[1].v.nonce = nonce
    THEN Ok(ciphertext[1].v.data)
    ELSE Err("Aead", "aead::Error")

\* encrypt that leaves the salt out of the result
encrypt_without_salt(data, password, salt, nonce) ==
    LET key == derive_key(password, salt)
        ciphertext == AeadSeal(key, nonce, data)
        result == nonce \o ciphertext
    IN Ok(B64Encode(result))

\* encrypt: base64(salt || nonce || ciphertext)
encrypt(data, password, salt, nonce) ==
    LET key == derive_key(password, salt)
        ciphertext == AeadSeal(key, nonce, data)
        result == salt \o nonce \o ciphertext
    IN Ok(B64Encode(result))

\* decrypt that reads the nonce before the salt
decrypt_nonce_first(encrypted_data, password) ==
    LET dec == B64Decode(encrypted_data) IN
    IF ~dec.ok THEN Err("Cryptography", "Invalid base64")
    ELSE LET data == dec.v IN
         IF BytesLen(data) < SALT_SIZE + NONCE_SIZE
         THEN Err("Cryptography", "Invalid encrypted data length")
         ELSE LET nonce_bytes == Take(data, NONCE_SIZE)
                  salt == Take(Drop(data, NONCE_SIZE), SALT_SIZE)
                  ciphertext == Drop(data, SALT_SIZE + NONCE_SIZE)
                  plaintext == AeadOpen(derive_key(password, salt), nonce_bytes, ciphertext)
              IN IF ~plaintext.ok THEN Err("Cryptography", "Decryption failed")
                 ELSE IF ~IsUtf8(plaintext.v) THEN Err("Cryptography", "Invalid UTF-8")
                 ELSE Ok(plaintext.v)

\* decrypt without the test of the decoded length
decrypt_unchecked_length(encrypted_data, password) ==
    LET dec == B64Decode(encrypted_data) IN
    IF ~dec.ok THEN Err("Cryptography", "Invalid base64")
    ELSE LET data == dec.v
             salt == Take(data, SALT_SIZE)
             nonce_bytes == Take(Drop(data, SALT_SIZE), NONCE_SIZE)
             ciphertext == Drop(data, SALT_SIZE + NONCE_SIZE)
             plaintext == AeadOpen(derive_key(password, salt), nonce_bytes, ciphertext)
         IN IF ~plaintext.ok THEN Err("Cryptography", "Decryption failed")
            ELSE IF ~IsUtf8(plaintext.v) THEN Err("Cryptography", "Invalid UTF-8")
            ELSE Ok(plaintext.v)

\* decrypt
decrypt(encrypted_data, password) ==
    LET dec == B64Decode(encrypted_data) IN
    IF ~dec.ok THEN Err("Cryptography", "Invalid base64")
    ELSE LET data == dec.v IN
         IF BytesLen(data) < SALT_SIZE + NONCE_SIZE
         THEN Err("Cryptography", "Invalid encrypted data length")
         ELSE LET salt == Take(data, SALT_SIZE)
                  nonce_bytes == Take(Drop(data, SALT_SIZE), NONCE_SIZE)
                  ciphertext == Drop(data, SALT_SIZE + NONCE_SIZE)
                  plaintext == AeadOpen(derive_key(password, salt), nonce_bytes, ciphertext)
              IN IF ~plaintext.ok THEN Err("Cryptography", "Decryption failed")
                 ELSE IF ~IsUtf8(plaintext.v) THEN Err("Cryptography", "Invalid UTF-8")
                 ELSE Ok(plaintext.v)

\* validate_mnemonic that returns the parse error of a text that is no
\* mnemonic
validate_mnemonic_propagating(mnemonic) ==
    IF ParseMnemonic(mnemonic).ok THEN Ok(TRUE)
    ELSE Err("Cryptography", "Invalid mnemonic")

\* validate_mnemonic: never an error
validate_mnemonic(mnemonic) == Ok(ParseMnemonic(mnemonic).ok)

\* Mnemonic::to_seed: PBKDF2-HMAC-SHA512 output, in bytes
SEED_SIZE == 64

\* mnemonic_to_seed: the 64-byte seed of the phrase with the empty passphrase
mnemonic_to_seed(mnemonic) ==
    IF ~ParseMnemonic(mnemonic).ok
    THEN Err("Cryptography", "Invalid mnemonic")
    ELSE Ok(Bytes([t |-> "seed", of |-> mnemonic.entropy], SEED_SIZE))

(***************************************************************************)
(* JwtService (services/jwt.rs)                                            *)
(***************************************************************************)
\* Config::from_env: the signing secret of this server
JwtSecret == "server-secret"

\* Uuid::to_string / Uuid::parse_str
UuidToString(id) == [fmt |-> "uuid", id |-> id]
UuidParse(s) == IF s.fmt = "uuid" THEN Ok(s.id) ELSE Err("Uuid", "parse error")

\* Duration::hours(24) in seconds, and the leeway of Validation::new
TOKEN_LIFETIME == 24 * 3600
LEEWAY == 60

\* generate_token: HS256 over Claims{sub, exp, iat} under the secret, issued at
\* time `t`; `encoded` is whether jsonwebtoken::encode returned Ok
generate_token(secret, user_id, t, encoded) ==
    LET expiration == t + TOKEN_LIFETIME
        claims == [sub |-> UuidToString(user_id), exp |-> expiration, iat |-> t]
    IN IF ~encoded THEN Err("Authentication", "Failed to generate token")
       ELSE Ok([fmt |-> "jwt", key |-> secret, claims |-> claims])

\* validate_token with validate_exp switched off
validate_token_no_expiry(secret, token, t) ==
    IF token.fmt # "jwt"
    THEN Err("Authentication", "Invalid token: InvalidToken")
    ELSE IF token.key # secret
    THEN Err("Authentication", "Invalid token: InvalidSignature")
    ELSE Ok(token.claims)

\* validate_token that does not verify the signature
validate_token_any_key(secret, token, t) ==
    IF token.fmt # "jwt"
    THEN Err("Authentication", "Invalid token: InvalidToken")
    ELSE IF token.claims.exp < t - LEEWAY
    THEN Err("Authentication", "Invalid token: ExpiredSignature")
    ELSE Ok(token.claims)

\* validate_token at time `t`: the text must be a JWT, the signature must
\* verify under the decoding key and exp must not lie more than the leeway in
\* the past
validate_token(secret, token, t) ==
    IF token.fmt # "jwt"
    THEN Err("Authentication", "Invalid token: InvalidToken")
    ELSE IF token.key # secret
    THEN Err("Authentication", "Invalid token: InvalidSignature")
    ELSE IF token.claims.exp < t - LEEWAY
    THEN Err("Authentication", "Invalid token: ExpiredSignature")
    ELSE Ok(token.claims)

\* get_user_id_from_token
get_user_id_from_token(secret, token, t) ==
    LET claims == validate_token(secret, token, t) IN
    IF ~claims.ok THEN claims
    ELSE LET id == UuidParse(claims.v.sub) IN
         IF ~id.ok THEN Err("Authentication", "Invalid user ID in token")
         ELSE id

(***************************************************************************)
(* UserRepository (models/user.rs).  A row's id is its position in `users` *)
(* (Uuid::new_v4() is a fresh value; the primary key).                     *)
(***************************************************************************)
\* a schema without the UNIQUE constraint
UniqueViolation_unconstrained(rows, public_key) == FALSE

\* the UNIQUE constraint on users.public_key of the schema
UniqueViolation(rows, public_key) ==
    \E i \in DOMAIN rows : rows[i].public_key = public_key

\* create_user as INSERT OR REPLACE: a row with the same public_key is replaced
\* by the new row
create_user_replace(rows, public_key, password_hash, encrypted_seed, t) ==
    LET hits == {i \in DOMAIN rows : rows[i].public_key = public_key}
        id == IF hits = {} THEN Len(rows) + 1 ELSE CHOOSE i \in hits : TRUE
        user == [id |-> id,
                 public_key |-> public_key,
                 password_hash |-> password_hash,
                 encrypted_seed |-> Some(encrypted_seed),
                 encrypted_device_creds |-> None,
                 created_at |-> t,
                 updated_at |-> t] IN
    IF hits = {}
    THEN [res |-> Ok(user), rows |-> Append(rows, user)]
    ELSE [res |-> Ok(user), rows |-> [rows EXCEPT ![id] = user]]

\* create_user whose INSERT leaves out the encrypted_seed column
create_user_without_seed(rows, public_key, password_hash, encrypted_seed, t) ==
    LET user == [id |-> Len(rows) + 1,
                 public_key |-> public_key,
                 password_hash |-> password_hash,
                 encrypted_seed |-> None,
                 encrypted_device_creds |-> None,
                 created_at |-> t,
                 updated_at |-> t] IN
    IF UniqueViolation(rows, public_key)
    THEN [res |-> Err("Database", "duplicate key value violates unique constraint"),
          rows |-> rows]
    ELSE [res |-> Ok(user), rows |-> Append(rows, user)]

\* create_user at time `t`: INSERT ... RETURNING; encrypted_device_creds is
\* left NULL
create_user(rows, public_key, password_hash, encrypted_seed, t) ==
    LET user == [id |-> Len(rows) + 1,
                 public_key |-> public_key,
                 password_hash |-> password_hash,
                 encrypted_seed |-> Some(encrypted_seed),
                 encrypted_device_creds |-> None,
                 created_at |-> t,
                 updated_at |-> t] IN
    IF UniqueViolation(rows, public_key)
    THEN [res |-> Err("Database", "duplicate key value violates unique constraint"),
          rows |-> rows]
    ELSE [res |-> Ok(user), rows |-> Append(rows, user)]

\* find_by_public_key: fetch_optional, the first matching row
find_by_public_key(rows, public_key) ==
    LET hits == {i \in DOMAIN rows : rows[i].public_key = public_key} IN
    IF hits = {} THEN None
    ELSE Some(rows[CHOOSE i \in hits : \A j \in hits : i <= j])

\* find_by_id
find_by_id(rows, id) ==
    IF id \in DOMAIN rows THEN Some(rows[id]) ELSE None

\* update_device_credentials whose UPDATE is conditional on the column being
\* NULL
update_device_credentials_if_absent(rows, user_id, encrypted_creds, t) ==
    [i \in DOMAIN rows |->
        IF rows[i].id = user_id /\ ~IsSome(rows[i].encrypted_device_creds)
        THEN [rows[i] EXCEPT !.encrypted_device_creds = Some(encrypted_creds),
                             !.updated_at = t]
        ELSE rows[i]]

\* update_device_credentials whose UPDATE has no WHERE clause
update_device_credentials_all_rows(rows, user_id, encrypted_creds, t) ==
    [i \in DOMAIN rows |->
        [rows[i] EXCEPT !.encrypted_device_creds = Some(encrypted_creds),
                        !.updated_at = t]]

\* update_device_credentials at time `t`:
\* UPDATE users SET encrypted_device_creds = $1, updated_at = $2 WHERE id = $3
update_device_credentials(rows, user_id, encrypted_creds, t) ==
    [i \in DOMAIN rows |->
        IF rows[i].id = user_id
        THEN [rows[i] EXCEPT !.encrypted_device_creds = Some(encrypted_creds),
                             !.updated_at = t]
        ELSE rows[i]]

\* public_key_exists: SELECT EXISTS(...)
public_key_exists(rows, public_key) ==
    \E i \in DOMAIN rows : rows[i].public_key = public_key

(***************************************************************************)
(* auth_middleware (middleware/auth.rs).  `header` is the Bearer token of  *)
(* the Authorization header, None when the header is missing or malformed; *)
(* `t` is the time of the request.                                         *)
(***************************************************************************)
auth_middleware(rows, header, t) ==
    IF ~IsSome(header)
    THEN Err("Authentication", "Missing authorization header")
    ELSE LET user_id == get_user_id_from_token(JwtSecret, header.v, t) IN
         IF ~user_id.ok THEN user_id
         ELSE IF ~IsSome(find_by_id(rows, user_id.v))
              THEN Err("Authentication", "User not found")
              ELSE user_id

(***************************************************************************)
(* GreenlightService (services/greenlight.rs): the remote scheduler.  Its  *)
(* answers are not determined by this program: a call returns one of the   *)
(* credential blobs below or fails.                                        *)
(***************************************************************************)
CREDS_LEN == 96
Creds == {Bytes([t |-> "creds", id |-> "c1"], CREDS_LEN),
          Bytes([t |-> "creds", id |-> "c2"], CREDS_LEN)}

GreenlightOutcomes ==
    {Ok([creds |-> c]) : c \in Creds} \cup {Err("Greenlight", "Failed to reach scheduler")}

\* serde_json::to_string(&DeviceCredentials)
ToJson(device_creds) == [fmt |-> "json", creds |-> device_creds.creds]

(***************************************************************************)
(* Requests.  A slot holds the handler's position (pc) and the local       *)
(* variables it still needs (loc); a finished request keeps its result,    *)
(* the account it resolved (user_id) and the scheduler calls it made       *)
(* (calls) until the slot is taken by the next request.                    *)
(***************************************************************************)
IdleReq == [op |-> "none", pc |-> "idle", user_id |-> None,
            loc |-> None, calls |-> <<>>, result |-> None]

Done(op, user_id, calls, result) ==
    [op |-> op, pc |-> "done", user_id |-> user_id,
     loc |-> None, calls |-> calls, result |-> result]

\* the response the client receives
Response(result, okStatus) ==
    IF result.ok THEN [status |-> okStatus, body |-> result.v]
    ELSE into_response(result)

\* the times at which the clock is read: the start, one second after the
\* expiry of a token issued at the start, and one second after its leeway
ClockTimes == {0, TOKEN_LIFETIME + 1, TOKEN_LIFETIME + LEEWAY + 1}

\* tokens a client can hold: those this server issued to an account since the
\* account was created, and a forgery
IssuedTokens ==
    UNION {{generate_token(JwtSecret, users[i].id, t, TRUE).v :
               t \in {u \in ClockTimes : users[i].created_at <= u /\ u <= now}} :
           i \in DOMAIN users}
ForgedToken == generate_token("attacker-secret", 1, 0, TRUE).v
Headers == {None} \cup {Some(t) : t \in IssuedTokens \cup {ForgedToken}}

\* encrypted seeds a client can send: those handed out at signup, garbage,
\* and the encryption of a text that is not a mnemonic
SeedInputs(password) ==
    {users[i].encrypted_seed.v : i \in DOMAIN users}
    \cup {NotBase64, ShortBlob,
          encrypt(NotAMnemonic, password, RandomSalt("s1"), RandomNonce("n1")).v}

\* no CryptoService computation is under examination
NoCall == [pc |-> "none"]

\* no WebSocket connection has been requested
NoSocket == [pc |-> "none"]

Init ==
    /\ users = <<>>
    /\ req = [r \in Slots |-> IdleReq]
    /\ now = 0
    /\ ws = NoSocket
    /\ cx = NoCall

(***************************************************************************)
(* signup (handlers/auth.rs)                                               *)
(***************************************************************************)
InsertsInFlight == Cardinality({r \in Slots : req[r].pc = "create_user"})

\* signup_check that validates the inputs before it looks the key up
signup_check_validation_first(rows, public_key, password) ==
    IF public_key = "" \/ ByteLen(password) < 8
    THEN Some(Err("Validation", "Public key cannot be empty and password must be at least 8 characters"))
    ELSE IF public_key_exists(rows, public_key)
    THEN Some(Err("BadRequest", "User with this public key already exists"))
    ELSE None

\* signup up to the .await of create_user: what the handler answers at once
\* (Some(error)), or None when it goes on to the cryptographic work
signup_check(rows, public_key, password) ==
    IF public_key_exists(rows, public_key)
    THEN Some(Err("BadRequest", "User with this public key already exists"))
    ELSE IF public_key = "" \/ ByteLen(password) < 8
    THEN Some(Err("Validation", "Public key cannot be empty and password must be at least 8 characters"))
    ELSE None

\* existence check, validation, mnemonic, encryption and hashing
SignupCheck(r, public_key, password) ==
    /\ req[r].pc = "idle"
    /\ LET early == signup_check(users, public_key, password) IN
       IF IsSome(early)
       THEN req' = [req EXCEPT ![r] = Done("signup", None, <<>>, early.v)]
       ELSE /\ Len(users) + InsertsInFlight < MaxUsers
            /\ \E e \in Entropies, salt \in Salts, nonce \in Nonces, hsalt \in Salts :
                 LET mnemonic == generate_mnemonic(e).v
                     encrypted_seed == encrypt(mnemonic, password, salt, nonce).v
                     password_hash == hash_password(password, hsalt).v
                 IN req' = [req EXCEPT ![r] =
                               [op |-> "signup", pc |-> "create_user", user_id |-> None,
                                loc |-> [public_key |-> public_key,
                                         encrypted_seed |-> encrypted_seed,
                                         password_hash |-> password_hash],
                                calls |-> <<>>, result |-> None]]
    /\ UNCHANGED <<users, now, cx, ws>>

\* create_user, generate_token and the response
SignupInsert(r) ==
    /\ req[r].op = "signup" /\ req[r].pc = "create_user"
    /\ \E encoded \in BOOLEAN :
         LET ins == create_user(users, req[r].loc.public_key,
                                req[r].loc.password_hash, req[r].loc.encrypted_seed, now)
             token == generate_token(JwtSecret, ins.res.v.id, now, encoded)
         IN /\ users' = ins.rows
            /\ IF ~ins.res.ok
               THEN req' = [req EXCEPT ![r] = Done("signup", None, <<>>, ins.res)]
               ELSE IF ~token.ok
               THEN req' = [req EXCEPT ![r] = Done("signup", Some(ins.res.v.id), <<>>, token)]
               ELSE req' = [req EXCEPT ![r] = Done("signup", Some(ins.res.v.id), <<>>,
                               Ok([encryptedSeed |-> req[r].loc.encrypted_seed,
                                   token |-> token.v]))]
    /\ UNCHANGED <<now, cx, ws>>

(***************************************************************************)
(* login (handlers/auth.rs)                                                *)
(***************************************************************************)
\* login that answers NotFound when no account has the key
login_not_found(rows, public_key, password, t, encoded) ==
    LET user == find_by_public_key(rows, public_key) IN
    IF ~IsSome(user) THEN Err("NotFound", "User not found")
    ELSE LET v == verify_password(password, user.v.password_hash)
             token == generate_token(JwtSecret, user.v.id, t, encoded) IN
         IF ~v.ok THEN v
         ELSE IF ~v.v THEN Err("Authentication", "Invalid credentials")
         ELSE IF ~token.ok THEN token
         ELSE Ok([token |-> token.v])

\* login at time `t`: find_by_public_key, verify_password, generate_token
login(rows, public_key, password, t, encoded) ==
    LET user == find_by_public_key(rows, public_key) IN
    IF ~IsSome(user) THEN Err("Authentication", "Invalid credentials")
    ELSE LET v == verify_password(password, user.v.password_hash)
             token == generate_token(JwtSecret, user.v.id, t, encoded) IN
         IF ~v.ok THEN v
         ELSE IF ~v.v THEN Err("Authentication", "Invalid credentials")
         ELSE IF ~token.ok THEN token
         ELSE Ok([token |-> token.v])

\* Login that records the time of a successful login in the account's row
Login_recording(r, public_key, password) ==
    /\ req[r].pc = "idle"
    /\ \E encoded \in BOOLEAN :
         LET user == find_by_public_key(users, public_key)
             result == login(users, public_key, password, now, encoded) IN
         /\ req' = [req EXCEPT ![r] =
                       Done("login", IF IsSome(user) THEN Some(user.v.id) ELSE None, <<>>,
                            result)]
         /\ users' = IF result.ok THEN [users EXCEPT ![user.v.id].updated_at = now]
                     ELSE users
    /\ UNCHANGED <<now, cx, ws>>

\* find_by_public_key, verify_password, generate_token and the response
Login(r, public_key, password) ==
    /\ req[r].pc = "idle"
    /\ \E encoded \in BOOLEAN :
         LET user == find_by_public_key(users, public_key) IN
         req' = [req EXCEPT ![r] =
                    Done("login", IF IsSome(user) THEN Some(user.v.id) ELSE None, <<>>,
                         login(users, public_key, password, now, encoded))]
    /\ UNCHANGED <<users, now, cx, ws>>

(***************************************************************************)
(* register_node (handlers/node.rs)                                        *)
(***************************************************************************)
\* the seed-recovery path shared by register_node and recover_node:
\* decrypt, validate_mnemonic, mnemonic_to_seed
SeedFromRequest(encrypted_seed, password) ==
    LET mnemonic == decrypt(encrypted_seed, password) IN
    IF ~mnemonic.ok THEN mnemonic
    ELSE IF ~validate_mnemonic(mnemonic.v).v
         THEN Err("Validation", "Invalid mnemonic")
         ELSE mnemonic_to_seed(mnemonic.v)

\* register_node_check without the test for stored credentials
register_node_check_unchecked(user, encrypted_seed, password) ==
    IF ~IsSome(user) THEN Some(Err("NotFound", "User not found"))
    ELSE LET seed == SeedFromRequest(encrypted_seed, password) IN
         IF ~seed.ok THEN Some(seed) ELSE None

\* register_node_check that recovers the seed before it tests for stored
\* credentials
register_node_check_decrypt_first(user, encrypted_seed, password) ==
    IF ~IsSome(user) THEN Some(Err("NotFound", "User not found"))
    ELSE LET seed == SeedFromRequest(encrypted_seed, password) IN
         IF ~seed.ok THEN Some(seed)
         ELSE IF IsSome(user.v.encrypted_device_creds)
         THEN Some(Err("BadRequest", "Node already registered for this user"))
         ELSE None

\* register_node up to the .await of greenlight_service.register_node: what the
\* handler answers at once (Some(error)), or None when the scheduler is called
register_node_check(user, encrypted_seed, password) ==
    IF ~IsSome(user) THEN Some(Err("NotFound", "User not found"))
    ELSE IF IsSome(user.v.encrypted_device_creds)
    THEN Some(Err("BadRequest", "Node already registered for this user"))
    ELSE LET seed == SeedFromRequest(encrypted_seed, password) IN
         IF ~seed.ok THEN Some(seed) ELSE None

\* middleware, find_by_id, the registered check and the seed recovery; the
\* scheduler's register is called when all of them pass
RegisterStart(r, header, encrypted_seed, password) ==
    /\ req[r].pc = "idle"
    /\ LET auth == auth_middleware(users, header, now) IN
       IF ~auth.ok
       THEN req' = [req EXCEPT ![r] = Done("register", None, <<>>, auth)]
       ELSE LET user == find_by_id(users, auth.v)
                early == register_node_check(user, encrypted_seed, password)
                seed == SeedFromRequest(encrypted_seed, password)
            IN IF IsSome(early)
               THEN req' = [req EXCEPT ![r] = Done("register", Some(auth.v), <<>>, early.v)]
               ELSE req' = [req EXCEPT ![r] =
                       [op |-> "register", pc |-> "provisioning", user_id |-> Some(auth.v),
                        loc |-> [seed |-> seed.v],
                        calls |-> <<[fn |-> "register", arg |-> seed.v]>>,
                        result |-> None]]
    /\ UNCHANGED <<users, now, cx, ws>>

\* RegisterProvision that stores an empty credential when the scheduler fails
RegisterProvision_storing(r) ==
    /\ req[r].op = "register" /\ req[r].pc = "provisioning"
    /\ \E out \in GreenlightOutcomes :
         IF out.ok
         THEN /\ req' = [req EXCEPT ![r].pc = "persist", ![r].loc = [device_creds |-> out.v]]
              /\ UNCHANGED users
         ELSE /\ req' = [req EXCEPT ![r] = Done("register", req[r].user_id, req[r].calls, out)]
              /\ users' = update_device_credentials(users, req[r].user_id.v,
                                                    B64Encode(<<>>), now)
    /\ UNCHANGED <<now, cx, ws>>

\* the scheduler answers the register call
RegisterProvision(r) ==
    /\ req[r].op = "register" /\ req[r].pc = "provisioning"
    /\ \E out \in GreenlightOutcomes :
         IF out.ok
         THEN req' = [req EXCEPT ![r].pc = "persist", ![r].loc = [device_creds |-> out.v]]
         ELSE req' = [req EXCEPT ![r] = Done("register", req[r].user_id, req[r].calls, out)]
    /\ UNCHANGED <<users, now, cx, ws>>

\* base64 of the credentials, update_device_credentials and the response
RegisterPersist(r) ==
    /\ req[r].op = "register" /\ req[r].pc = "persist"
    /\ LET creds_base64 == B64Encode(req[r].loc.device_creds.creds) IN
       /\ users' = update_device_credentials(users, req[r].user_id.v, creds_base64, now)
       /\ req' = [req EXCEPT ![r] = Done("register", req[r].user_id, req[r].calls,
                      Ok([encryptedDeviceCreds |-> creds_base64]))]
    /\ UNCHANGED <<now, cx, ws>>

(***************************************************************************)
(* recover_node (handlers/node.rs)                                         *)
(***************************************************************************)
RecoverStart(r, header, encrypted_seed, password) ==
    /\ req[r].pc = "idle"
    /\ LET auth == auth_middleware(users, header, now) IN
       IF ~auth.ok
       THEN req' = [req EXCEPT ![r] = Done("recover", None, <<>>, auth)]
       ELSE LET seed == SeedFromRequest(encrypted_seed, password) IN
            IF ~seed.ok
            THEN req' = [req EXCEPT ![r] = Done("recover", Some(auth.v), <<>>, seed)]
            ELSE req' = [req EXCEPT ![r] =
                    [op |-> "recover", pc |-> "provisioning", user_id |-> Some(auth.v),
                     loc |-> [seed |-> seed.v, password |-> password],
                     calls |-> <<[fn |-> "recover", arg |-> seed.v]>>,
                     result |-> None]]
    /\ UNCHANGED <<users, now, cx, ws>>

\* the scheduler answers the recover call
RecoverProvision(r) ==
    /\ req[r].op = "recover" /\ req[r].pc = "provisioning"
    /\ \E out \in GreenlightOutcomes :
         IF out.ok
         THEN req' = [req EXCEPT ![r].pc = "persist",
                                 ![r].loc = [device_creds |-> out.v,
                                             password |-> req[r].loc.password]]
         ELSE req' = [req EXCEPT ![r] = Done("recover", req[r].user_id, req[r].calls, out)]
    /\ UNCHANGED <<users, now, cx, ws>>

\* RecoverPersist that stores and returns the base64 of the credentials, as
\* register_node does
RecoverPersist_plain(r) ==
    /\ req[r].op = "recover" /\ req[r].pc = "persist"
    /\ LET creds_base64 == B64Encode(req[r].loc.device_creds.creds) IN
       /\ users' = update_device_credentials(users, req[r].user_id.v, creds_base64, now)
       /\ req' = [req EXCEPT ![r] = Done("recover", req[r].user_id, req[r].calls,
                      Ok([encryptedDeviceCreds |-> creds_base64]))]
    /\ UNCHANGED <<now, cx, ws>>

\* serialize and encrypt the credentials, update_device_credentials, respond;
\* `serialized` is whether serde_json::to_string returned Ok
RecoverPersist(r) ==
    /\ req[r].op = "recover" /\ req[r].pc = "persist"
    /\ \E salt \in Salts, nonce \in Nonces, serialized \in BOOLEAN :
         LET creds_json == ToJson(req[r].loc.device_creds)
             encrypted_device_creds == encrypt(creds_json, req[r].loc.password, salt, nonce).v
         IN IF ~serialized
            THEN /\ req' = [req EXCEPT ![r] = Done("recover", req[r].user_id, req[r].calls,
                                Err("Internal", "Failed to serialize credentials"))]
                 /\ UNCHANGED users
            ELSE /\ users' = update_device_credentials(users, req[r].user_id.v,
                                                       encrypted_device_creds, now)
                 /\ req' = [req EXCEPT ![r] = Done("recover", req[r].user_id, req[r].calls,
                                Ok([encryptedDeviceCreds |-> encrypted_device_creds]))]
    /\ UNCHANGED <<now, cx, ws>>

(***************************************************************************)
(* get_node_info, get_balance, create_offer (handlers/node.rs): the three  *)
(* handlers share the path up to the scheduler call                        *)
(***************************************************************************)
DataOps == {"info", "balance", "offer"}

\* stored_device_creds that takes missing credentials for the empty text
\* (unwrap_or_default in place of ok_or_else)
stored_device_creds_or_default(rows, user_id) ==
    LET user == find_by_id(rows, user_id) IN
    IF ~IsSome(user) THEN Err("NotFound", "User not found")
    ELSE IF ~IsSome(user.v.encrypted_device_creds)
    THEN Ok(<<>>)
    ELSE LET dec == B64Decode(user.v.encrypted_device_creds.v) IN
         IF ~dec.ok THEN Err("Internal", "Failed to decode device credentials")
         ELSE dec

\* find_by_id, the stored credentials and their base64 decoding
stored_device_creds(rows, user_id) ==
    LET user == find_by_id(rows, user_id) IN
    IF ~IsSome(user) THEN Err("NotFound", "User not found")
    ELSE IF ~IsSome(user.v.encrypted_device_creds)
    THEN Err("BadRequest", "No node registered for this user")
    ELSE LET dec == B64Decode(user.v.encrypted_device_creds.v) IN
         IF ~dec.ok THEN Err("Internal", "Failed to decode device credentials")
         ELSE dec

NodeData(r, fn, header) ==
    /\ req[r].pc = "idle"
    /\ LET auth == auth_middleware(users, header, now) IN
       IF ~auth.ok
       THEN req' = [req EXCEPT ![r] = Done("data", None, <<>>, auth)]
       ELSE LET device_creds == stored_device_creds(users, auth.v) IN
            IF ~device_creds.ok
            THEN req' = [req EXCEPT ![r] = Done("data", Some(auth.v), <<>>, device_creds)]
            ELSE \E answered \in BOOLEAN :
                   req' = [req EXCEPT ![r] = Done("data", Some(auth.v),
                              <<[fn |-> fn, arg |-> device_creds.v]>>,
                              IF answered THEN Ok([data |-> fn])
                              ELSE Err("Greenlight", "Failed to reach scheduler"))]
    /\ UNCHANGED <<users, now, cx, ws>>

(***************************************************************************)
(* The response has been delivered: the slot takes the next request        *)
(***************************************************************************)
Reset(r) ==
    /\ req[r].pc = "done"
    /\ req' = [req EXCEPT ![r] = IdleReq]
    /\ UNCHANGED <<users, now, cx, ws>>

Next ==
    \E r \in Slots :
        \/ \E pk \in LifecycleKeys, pw \in Passwords : SignupCheck(r, pk, pw)
        \/ SignupInsert(r)
        \/ \E pk \in LifecycleKeys, pw \in Passwords : Login(r, pk, pw)
        \/ \E h \in Headers, pw \in Passwords : \E es \in SeedInputs(pw) : RegisterStart(r, h, es, pw)
        \/ RegisterProvision(r)
        \/ RegisterPersist(r)
        \/ \E h \in Headers, pw \in Passwords : \E es \in SeedInputs(pw) : RecoverStart(r, h, es, pw)
        \/ RecoverProvision(r)
        \/ RecoverPersist(r)
        \/ \E fn \in DataOps, h \in Headers : NodeData(r, fn, h)
        \/ Reset(r)

\* every request, on the account of one public key
Spec == Init /\ [][Next]_vars

\* the public routes only (signup and login), with every public key
NextAuth ==
    \E r \in Slots :
        \/ \E pk \in PublicKeys, pw \in Passwords : SignupCheck(r, pk, pw)
        \/ SignupInsert(r)
        \/ \E pk \in PublicKeys, pw \in Passwords : Login(r, pk, pw)
        \/ Reset(r)

SpecAuth == Init /\ [][NextAuth]_vars

(***************************************************************************)
(* Two accounts, their sessions and the clock: the protected routes, one   *)
(* request at a time                                                       *)
(***************************************************************************)
\* time passes
Tick ==
    /\ \E t \in ClockTimes : t > now /\ now' = t
    /\ UNCHANGED <<users, req, cx, ws>>

SessionKeys == {"pk1", "pk2"}
SessionPasswords == {"password123"}

NextSession ==
    \/ \E pk \in SessionKeys, pw \in SessionPasswords : SignupCheck("r1", pk, pw)
    \/ SignupInsert("r1")
    \/ \E h \in Headers, pw \in SessionPasswords : \E es \in SeedInputs(pw) :
          RegisterStart("r1", h, es, pw)
    \/ RegisterProvision("r1")
    \/ RegisterPersist("r1")
    \/ \E h \in Headers, pw \in SessionPasswords : \E es \in SeedInputs(pw) :
          RecoverStart("r1", h, es, pw)
    \/ RecoverProvision("r1")
    \/ RecoverPersist("r1")
    \/ \E fn \in DataOps, h \in Headers : NodeData("r1", fn, h)
    \/ Reset("r1")
    \/ Tick

SpecSession == Init /\ [][NextSession]_vars

(***************************************************************************)
(* recover_node of one account, with every password a client may send and  *)
(* with encrypted seeds the client made itself                             *)
(***************************************************************************)
\* a blob made by the client: a phrase of its own, encrypted under `password`
CraftedSeed(password) ==
    encrypt(MnemonicFromEntropy("e2"), password, RandomSalt("s2"), RandomNonce("n2")).v

\* the encrypted seeds sent to recover_node
RecoverInputs(password) == SeedInputs(password) \cup {CraftedSeed(password)}

NextRecover ==
    \E r \in Slots :
        \/ \E pw \in SessionPasswords : SignupCheck(r, "pk1", pw)
        \/ SignupInsert(r)
        \/ \E h \in Headers, pw \in Passwords : \E es \in RecoverInputs(pw) :
              RecoverStart(r, h, es, pw)
        \/ RecoverProvision(r)
        \/ RecoverPersist(r)
        \/ Reset(r)

SpecRecover == Init /\ [][NextRecover]_vars

(***************************************************************************)
(* Two accounts and every route that reads or writes the users table, one  *)
(* request at a time, with the clock                                       *)
(***************************************************************************)
\* the passwords sent to login: the one of the accounts and another one
StorePasswords == {"password123", "hunter2"}

NextStore ==
    \/ \E pk \in SessionKeys, pw \in SessionPasswords : SignupCheck("r1", pk, pw)
    \/ SignupInsert("r1")
    \/ \E pk \in SessionKeys, pw \in StorePasswords : Login("r1", pk, pw)
    \/ \E h \in Headers, pw \in SessionPasswords : \E es \in SeedInputs(pw) :
          RegisterStart("r1", h, es, pw)
    \/ RegisterProvision("r1")
    \/ RegisterPersist("r1")
    \/ \E h \in Headers, pw \in SessionPasswords : \E es \in SeedInputs(pw) :
          RecoverStart("r1", h, es, pw)
    \/ RecoverProvision("r1")
    \/ RecoverPersist("r1")
    \/ \E fn \in DataOps, h \in Headers : NodeData("r1", fn, h)
    \/ Reset("r1")
    \/ Tick

SpecStore == Init /\ [][NextStore]_vars

(***************************************************************************)
(* CryptoService::encrypt and decrypt on their own: the inputs of one      *)
(* encrypt call are drawn at the start, and the calls are applied to them  *)
(***************************************************************************)
\* the plaintexts given to encrypt
Plaintexts ==
    {EmptyText, NotAMnemonic, MnemonicFromEntropy("e1"),
     ToJson([creds |-> Bytes([t |-> "creds", id |-> "c1"], CREDS_LEN)])}

\* texts given to decrypt that no encrypt call returned: not base64, no
\* bytes, fewer than 44 bytes (10 and 43), exactly 44 bytes (any, and a salt
\* and a nonce that encrypt drew), 45 bytes, and a sealed blob whose plaintext
\* is not UTF-8
ForeignBlobs(password) ==
    {NotBase64, ShortBlob,
     B64Encode(<<>>),
     B64Encode(Bytes([t |-> "raw"], SALT_SIZE + NONCE_SIZE - 1)),
     B64Encode(Bytes([t |-> "raw"], SALT_SIZE + NONCE_SIZE)),
     B64Encode(RandomSalt("s1") \o RandomNonce("n1")),
     B64Encode(Bytes([t |-> "raw"], SALT_SIZE + NONCE_SIZE + 1)),
     B64Encode(RandomSalt("s1") \o RandomNonce("n1")
               \o AeadSeal(derive_key(password, RandomSalt("s1")), RandomNonce("n1"), NotUtf8))}

InitCrypto ==
    /\ users = <<>>
    /\ req = [r \in Slots |-> IdleReq]
    /\ now = 0
    /\ ws = NoSocket
    /\ \E data \in Plaintexts, password \in CryptoPasswords,
          salt \in CryptoSalts, nonce \in CryptoNonces :
          cx = [pc |-> "inputs", data |-> data, password |-> password,
                salt |-> salt, nonce |-> nonce]

\* encrypt(data, password) with the drawn salt and nonce
CxEncrypt ==
    /\ cx.pc = "inputs"
    /\ cx' = [pc |-> "encrypted", data |-> cx.data, password |-> cx.password,
              salt |-> cx.salt, nonce |-> cx.nonce,
              blob |-> encrypt(cx.data, cx.password, cx.salt, cx.nonce)]
    /\ UNCHANGED <<users, req, now, ws>>

\* a second call, encrypt(data, password_b), with a draw of its own: OsRng
\* does not return the 44 bytes (salt and nonce) of the earlier call again,
\* but either part alone may repeat
CxEncryptAgain(password_b, salt, nonce) ==
    /\ cx.pc = "encrypted"
    /\ <<salt, nonce>> # <<cx.salt, cx.nonce>>
    /\ cx' = [pc |-> "encrypted twice", data |-> cx.data, password |-> cx.password,
              salt |-> cx.salt, nonce |-> cx.nonce, blob |-> cx.blob,
              password_b |-> password_b, salt2 |-> salt, nonce2 |-> nonce,
              blob2 |-> encrypt(cx.data, password_b, salt, nonce)]
    /\ UNCHANGED <<users, req, now, ws>>

\* decrypt(blob, password2) of the blob encrypt returned
CxDecrypt(password2) ==
    /\ cx.pc = "encrypted"
    /\ cx' = [pc |-> "decrypted", data |-> cx.data, password |-> cx.password,
              salt |-> cx.salt, nonce |-> cx.nonce, blob |-> cx.blob,
              password2 |-> password2,
              out |-> decrypt(cx.blob.v, password2)]
    /\ UNCHANGED <<users, req, now, ws>>

\* decrypt(input, password2) of a text that encrypt did not return
CxDecryptForeign(input, password2) ==
    /\ cx.pc = "inputs"
    /\ cx' = [pc |-> "decrypted foreign", input |-> input, password2 |-> password2,
              out |-> decrypt(input, password2)]
    /\ UNCHANGED <<users, req, now, ws>>

NextCrypto ==
    \/ CxEncrypt
    \/ \E password_b \in CryptoPasswords, salt \in CryptoSalts, nonce \in CryptoNonces :
          CxEncryptAgain(password_b, salt, nonce)
    \/ \E password2 \in CryptoPasswords : CxDecrypt(password2)
    \/ \E password \in CryptoPasswords, password2 \in CryptoPasswords :
          \E input \in ForeignBlobs(password) : CxDecryptForeign(input, password2)

SpecCrypto == InitCrypto /\ [][NextCrypto]_vars

(***************************************************************************)
(* CryptoService::hash_password, verify_password, generate_mnemonic,       *)
(* validate_mnemonic and mnemonic_to_seed on their own: a password, the    *)
(* salt of its hash and the entropy of a mnemonic are drawn at the start   *)
(***************************************************************************)
\* the entropy drawn by generate_mnemonic
VaultEntropies == {"e1", "e2"}

\* a PHC string cut off inside its parameters, which PasswordHash::new rejects
TruncatedPhc == [fmt |-> "text", s |-> "$argon2id$v=19$m="]

\* a PHC string of another password hashing function over `password`
ForeignPhc(password) ==
    [fmt |-> "phc", alg |-> "scrypt", salt |-> RandomSalt("s1"), pw |-> password]

\* texts in the password_hash column that hash_password did not produce
StoredHashes(password) == {EmptyText, NotBase64, TruncatedPhc, ForeignPhc(password)}

\* the users table with one account whose password_hash is `hash`
AccountWithHash(hash) ==
    create_user(<<>>, "pk1", hash,
                encrypt(MnemonicFromEntropy("e1"), "password123",
                        RandomSalt("s1"), RandomNonce("n1")).v, 0).rows

\* 24 words of the list whose last word (the checksum) was exchanged, and a
\* valid phrase of 12 words (16 bytes of entropy)
FlippedChecksum(e) == [fmt |-> "words", of |-> e, flipped |-> "last word"]
TwelveWords == MnemonicFromEntropy("e3 (16 bytes)")

\* texts given to validate_mnemonic and mnemonic_to_seed that
\* generate_mnemonic did not return
ForeignPhrases ==
    {EmptyText, NotAMnemonic, TwelveWords} \cup {FlippedChecksum(e) : e \in VaultEntropies}

InitVault ==
    /\ users = <<>>
    /\ req = [r \in Slots |-> IdleReq]
    /\ now = 0
    /\ ws = NoSocket
    /\ \E password \in CryptoPasswords, salt \in CryptoSalts, entropy \in VaultEntropies :
          cx = [pc |-> "vault inputs", password |-> password, salt |-> salt,
                entropy |-> entropy]

\* hash_password(password) with the drawn salt
VxHash ==
    /\ cx.pc = "vault inputs"
    /\ cx' = [pc |-> "hashed", password |-> cx.password, salt |-> cx.salt,
              hash |-> hash_password(cx.password, cx.salt)]
    /\ UNCHANGED <<users, req, now, ws>>

\* verify_password(password2, hash) of the hash hash_password returned
VxVerify(password2) ==
    /\ cx.pc = "hashed"
    /\ cx' = [pc |-> "verified", password |-> cx.password, salt |-> cx.salt,
              hash |-> cx.hash, password2 |-> password2,
              out |-> verify_password(password2, cx.hash.v)]
    /\ UNCHANGED <<users, req, now, ws>>

\* verify_password(password2, hash) of a text that hash_password did not
\* return, and login with password2 for the account that stores it
VxVerifyStored(hash, password2, encoded) ==
    /\ cx.pc = "vault inputs"
    /\ cx' = [pc |-> "verified stored", hash |-> hash, password2 |-> password2,
              out |-> verify_password(password2, hash),
              login |-> login(AccountWithHash(hash), "pk1", password2, now, encoded)]
    /\ UNCHANGED <<users, req, now, ws>>

\* generate_mnemonic() with the drawn entropy, then validate_mnemonic and
\* mnemonic_to_seed of the phrase
VxGenerate ==
    /\ cx.pc = "vault inputs"
    /\ LET phrase == generate_mnemonic(cx.entropy) IN
       cx' = [pc |-> "generated", entropy |-> cx.entropy, phrase |-> phrase,
              valid |-> validate_mnemonic(phrase.v),
              seed |-> mnemonic_to_seed(phrase.v)]
    /\ UNCHANGED <<users, req, now, ws>>

\* validate_mnemonic and mnemonic_to_seed of a text that generate_mnemonic did
\* not return
VxPhrase(phrase) ==
    /\ cx.pc = "vault inputs"
    /\ cx' = [pc |-> "phrase", phrase |-> phrase,
              valid |-> validate_mnemonic(phrase),
              seed |-> mnemonic_to_seed(phrase)]
    /\ UNCHANGED <<users, req, now, ws>>

NextVault ==
    \/ VxHash
    \/ \E password2 \in CryptoPasswords : VxVerify(password2)
    \/ \E password \in CryptoPasswords, password2 \in CryptoPasswords, encoded \in BOOLEAN :
          \E hash \in StoredHashes(password) : VxVerifyStored(hash, password2, encoded)
    \/ VxGenerate
    \/ \E phrase \in ForeignPhrases : VxPhrase(phrase)

SpecVault == InitVault /\ [][NextVault]_vars

(***************************************************************************)
(* JwtService::generate_token and get_user_id_from_token on their own: the *)
(* secret of the issuing JwtService, the account id and the time of issue  *)
(* are drawn at the start; tokens are verified by this server's JwtService *)
(***************************************************************************)
\* the secret of this server, and the secret of another JwtService
TokenSecrets == {JwtSecret, "attacker-secret"}

\* the ids of the accounts tokens are issued for
AccountIds == 1 .. MaxUsers

\* the times at which a token issued at `iat` is verified: at once, at its
\* exp, one second later, at the end of the leeway, and one second later
VerifyTimes(iat) ==
    {iat, iat + TOKEN_LIFETIME, iat + TOKEN_LIFETIME + 1,
     iat + TOKEN_LIFETIME + LEEWAY, iat + TOKEN_LIFETIME + LEEWAY + 1}

\* a text that is not a JWT, and a token under this server's secret whose
\* subject is not a UUID
NotAJwt == [fmt |-> "text", s |-> "not.a.jwt"]
BadSubjectToken(t) ==
    [fmt |-> "jwt", key |-> JwtSecret,
     claims |-> [sub |-> [fmt |-> "text", s |-> "not-a-uuid"],
                 exp |-> t + TOKEN_LIFETIME, iat |-> t]]

\* tokens given to get_user_id_from_token that this server did not issue
ForeignTokens == {NotAJwt, ForgedToken} \cup {BadSubjectToken(t) : t \in ClockTimes}

InitToken ==
    /\ users = <<>>
    /\ req = [r \in Slots |-> IdleReq]
    /\ now = 0
    /\ ws = NoSocket
    /\ \E secret \in TokenSecrets, user_id \in AccountIds, iat \in ClockTimes :
          cx = [pc |-> "token inputs", secret |-> secret, user_id |-> user_id,
                iat |-> iat]

\* generate_token(user_id) at time iat, by the JwtService of `secret`
TxIssue(encoded) ==
    /\ cx.pc = "token inputs"
    /\ cx' = [pc |-> "issued", secret |-> cx.secret, user_id |-> cx.user_id,
              iat |-> cx.iat,
              token |-> generate_token(cx.secret, cx.user_id, cx.iat, encoded)]
    /\ UNCHANGED <<users, req, now, ws>>

\* validate_token and get_user_id_from_token of the issued token at time `t`
TxVerify(t) ==
    /\ cx.pc = "issued"
    /\ cx.token.ok
    /\ t \in VerifyTimes(cx.iat)
    /\ cx' = [pc |-> "token verified", secret |-> cx.secret, user_id |-> cx.user_id,
              iat |-> cx.iat, token |-> cx.token, at |-> t,
              claims |-> validate_token(JwtSecret, cx.token.v, t),
              out |-> get_user_id_from_token(JwtSecret, cx.token.v, t)]
    /\ UNCHANGED <<users, req, now, ws>>

\* get_user_id_from_token of a token this server did not issue
TxVerifyForeign(token, t) ==
    /\ cx.pc = "token inputs"
    /\ cx' = [pc |-> "foreign token verified", token |-> token, at |-> t,
              out |-> get_user_id_from_token(JwtSecret, token, t)]
    /\ UNCHANGED <<users, req, now, ws>>

NextToken ==
    \/ \E encoded \in BOOLEAN : TxIssue(encoded)
    \/ \E t \in UNION {VerifyTimes(iat) : iat \in ClockTimes} : TxVerify(t)
    \/ \E token \in ForeignTokens, t \in VerifyTimes(0) : TxVerifyForeign(token, t)

SpecToken == InitToken /\ [][NextToken]_vars

(***************************************************************************)
(* The WebSocket connection (handlers/websocket.rs).  A text frame is      *)
(* modelled by what serde_json finds in it: whether it is a JSON object    *)
(* and which of the fields the handlers look for it has.                   *)
(***************************************************************************)
JsonText(encrypted_device_creds, password, command, payload) ==
    [json |-> TRUE, encryptedDeviceCreds |-> encrypted_device_creds,
     password |-> password, command |-> command, payload |-> payload]

\* the texts a client may send: authentication messages; commands without a
\* payload; create_offer with a payload that has a description and with one
\* that has none; a text that is not JSON, the JSON object without fields, an
\* authentication message without password, and an object with the fields of
\* both an authentication message and a command
SocketTexts ==
    {JsonText(Some("stored-creds"), Some(pw), None, None) : pw \in StorePasswords}
    \cup {JsonText(None, None, Some(c), None) :
             c \in {"get_info", "create_offer", "list_offers", "get_balance"}}
    \cup {JsonText(None, None, Some("create_offer"), Some(p)) :
             p \in {[amount_msat |-> Some(1000), description |-> Some("coffee")],
                    [amount_msat |-> Some(1000), description |-> None]}}
    \cup {[json |-> FALSE, encryptedDeviceCreds |-> None, password |-> None,
           command |-> None, payload |-> None],
          JsonText(None, None, None, None),
          JsonText(Some("stored-creds"), None, None, None),
          JsonText(Some("stored-creds"), Some("password123"), Some("get_info"), None)}

\* serde_json::from_str::<AuthMessage>: both fields are required, other
\* fields are ignored
ParseAuthMessage(text) ==
    IF text.json /\ IsSome(text.encryptedDeviceCreds) /\ IsSome(text.password)
    THEN Ok([encrypted_device_creds |-> text.encryptedDeviceCreds.v,
             password |-> text.password.v])
    ELSE Err("Json", "missing field")

\* serde_json::from_str::<WebSocketMessage>: command is required, payload
\* is optional
ParseWebSocketMessage(text) ==
    IF text.json /\ IsSome(text.command)
    THEN Ok([command |-> text.command.v, payload |-> text.payload])
    ELSE Err("Json", "missing field")

\* the credentials the WebSocket commands pass to the scheduler: &[0u8; 32]
ZeroCreds == Bytes([t |-> "zero"], 32)

WebSocketResponse(command, success, data, error) ==
    [command |-> command, success |-> success, data |-> data, error |-> error]

\* handle_websocket_command: the call made to the scheduler (None when the
\* command is answered without one) and the response; `outcome` is the
\* scheduler's answer.  `request` is
\* payload.and_then(|p| from_value::<CreateOfferRequest>(p).ok()), in which
\* description is required
handle_websocket_command(message, outcome) ==
    LET request == IF IsSome(message.payload) /\ IsSome(message.payload.v.description)
                   THEN Some([amount_msat |-> message.payload.v.amount_msat,
                              description |-> message.payload.v.description.v])
                   ELSE None
        call == CASE message.command = "get_info" ->
                        Some([fn |-> "get_node_info", arg |-> ZeroCreds])
                  [] message.command = "create_offer" /\ IsSome(request) ->
                        Some([fn |-> "create_offer", arg |-> ZeroCreds,
                              request |-> request.v])
                  [] OTHER -> None
        result == CASE IsSome(call) -> outcome
                    [] message.command = "create_offer" ->
                          Err("BadRequest", "Invalid create_offer payload")
                    [] message.command = "list_offers" ->
                          Err("BadRequest", "list_offers not yet implemented")
                    [] OTHER ->
                          Err("BadRequest", <<"Unknown command: ", message.command>>)
    IN [call |-> call,
        response |-> IF result.ok
                     THEN WebSocketResponse(message.command, TRUE, Some(result.v), None)
                     ELSE WebSocketResponse(message.command, FALSE, None,
                                            Some(Display(result)))]

AuthOk ==
    WebSocketResponse("auth", TRUE, Some([message |-> "Authenticated successfully"]), None)
AuthFailed ==
    WebSocketResponse("auth", FALSE, None, Some("Invalid authentication message format"))
InvalidFormat ==
    WebSocketResponse("error", FALSE, None, Some("Invalid message format"))

\* one turn of the loop: what receiver.next() yielded, the call made to the
\* scheduler, the response handed to sender.send and whether the send
\* succeeded
Turn(event, text, call, response, sent) ==
    [event |-> event, text |-> text, call |-> call, response |-> response, sent |-> sent]

\* websocket_handler: the token of the query string is validated before the
\* upgrade; websocket_connection enters the loop with its locals unset
WsConnect(token) ==
    /\ ws.pc = "none"
    /\ LET user_id == get_user_id_from_token(JwtSecret, token, now) IN
       ws' = IF user_id.ok
             THEN [pc |-> "open", authenticated |-> FALSE, encrypted_creds |-> None,
                   password |-> None, last |-> [event |-> "upgrade"]]
             ELSE [pc |-> "refused", response |-> into_response(user_id)]
    /\ UNCHANGED <<users, req, now, cx>>

\* WsText that dispatches a command of a connection that is not authenticated
WsText_unauthenticated_dispatch(text, sent, outcome) ==
    /\ ws.pc = "open"
    /\ LET ws_msg == ParseWebSocketMessage(text) IN
       IF ws_msg.ok
       THEN LET h == handle_websocket_command(ws_msg.v, outcome) IN
            ws' = [ws EXCEPT !.pc = IF sent THEN "open" ELSE "closed",
                             !.last = Turn("text", text, h.call, Some(h.response), sent)]
       ELSE ws' = [ws EXCEPT !.last = Turn("text", text, None, Some(InvalidFormat), sent)]
    /\ UNCHANGED <<users, req, now, cx>>

\* Ok(Message::Text(text)): one turn of the loop on a text frame; `sent` is
\* whether sender.send returned Ok, `outcome` the scheduler's answer if the
\* command calls it
WsText(text, sent, outcome) ==
    /\ ws.pc = "open"
    /\ IF ~ws.authenticated
       THEN LET auth_msg == ParseAuthMessage(text) IN
            IF auth_msg.ok
            THEN ws' = [pc |-> IF sent THEN "open" ELSE "closed",
                        authenticated |-> TRUE,
                        encrypted_creds |-> Some(auth_msg.v.encrypted_device_creds),
                        password |-> Some(auth_msg.v.password),
                        last |-> Turn("text", text, None, Some(AuthOk), sent)]
            ELSE ws' = [ws EXCEPT !.pc = "closed",
                                  !.last = Turn("text", text, None, Some(AuthFailed), sent)]
       ELSE LET ws_msg == ParseWebSocketMessage(text) IN
            IF ws_msg.ok
            THEN LET h == handle_websocket_command(ws_msg.v, outcome) IN
                 ws' = [ws EXCEPT !.pc = IF sent THEN "open" ELSE "closed",
                                  !.last = Turn("text", text, h.call, Some(h.response), sent)]
            ELSE ws' = [ws EXCEPT !.last = Turn("text", text, None, Some(InvalidFormat), sent)]
    /\ UNCHANGED <<users, req, now, cx>>

\* Ok(Message::Close(_)): break
WsClose ==
    /\ ws.pc = "open"
    /\ ws' = [ws EXCEPT !.pc = "closed", !.last = [event |-> "close"]]
    /\ UNCHANGED <<users, req, now, cx>>

\* the arm `_ => {}`: a Binary, Ping or Pong frame, or an Err of the stream
WsIgnored(event) ==
    /\ ws.pc = "open"
    /\ ws' = [ws EXCEPT !.last = [event |-> event]]
    /\ UNCHANGED <<users, req, now, cx>>

\* receiver.next() yields None: the `while let` ends
WsEndOfStream ==
    /\ ws.pc = "open"
    /\ ws' = [ws EXCEPT !.pc = "closed", !.last = [event |-> "end of stream"]]
    /\ UNCHANGED <<users, req, now, cx>>

InitSocket ==
    /\ users = <<>>
    /\ req = [r \in Slots |-> IdleReq]
    /\ now \in ClockTimes
    /\ cx = NoCall
    /\ ws = NoSocket

\* the tokens of the query string are tokens of this server, whether or not
\* an account has the id, and tokens it did not issue; the scheduler answers
\* a call or fails
NextSocket ==
    \/ \E token \in {generate_token(JwtSecret, id, 0, TRUE).v : id \in AccountIds}
                       \cup ForeignTokens :
          WsConnect(token)
    \/ \E text \in SocketTexts, sent \in BOOLEAN,
          outcome \in {Ok([data |-> "answer"]),
                       Err("Greenlight", "Failed to reach scheduler")} :
          WsText(text, sent, outcome)
    \/ WsClose
    \/ \E event \in {"binary", "ping", "pong", "error"} : WsIgnored(event)
    \/ WsEndOfStream

SpecSocket == InitSocket /\ [][NextSocket]_vars

(***************************************************************************)
(* GreenlightService::get_balance (services/greenlight.rs).  A u64 is      *)
(* written in base 1000, least significant limb first, in WIDE limbs: 7    *)
(* limbs hold every u64 (2^64 - 1 = 18 446 744 073 709 551 615) and the    *)
(* eighth holds the carry of the sums, so that the value modulo 2^64 and   *)
(* the division by 1000 are exact.                                         *)
(***************************************************************************)
BASE == 1000
WIDE == 8

\* the limbs of a number below 10^9
Limbs(n) ==
    [i \in 1 .. WIDE |-> CASE i = 1 -> n % BASE
                           [] i = 2 -> (n \div BASE) % BASE
                           [] i = 3 -> (n \div (BASE * BASE)) % BASE
                           [] OTHER -> 0]

\* 2^64
TWO_64 == <<616, 551, 709, 73, 744, 446, 18, 0>>

\* a < b
Less(a, b) ==
    \E i \in 1 .. WIDE : a[i] < b[i] /\ \A j \in (i + 1) .. WIDE : a[j] = b[j]

\* a + b from limb i on, with the carry of the lower limbs
RECURSIVE AddFrom(_, _, _, _)
AddFrom(a, b, i, carry) ==
    IF i > WIDE THEN <<>>
    ELSE LET d == a[i] + b[i] + carry IN
         <<d % BASE>> \o AddFrom(a, b, i + 1, d \div BASE)

\* a + b, in the integers
Add(a, b) == AddFrom(a, b, 1, 0)

\* a - b from limb i on, with the borrow of the lower limbs
RECURSIVE SubFrom(_, _, _, _)
SubFrom(a, b, i, borrow) ==
    IF i > WIDE THEN <<>>
    ELSE LET d == a[i] - b[i] - borrow IN
         <<(d + BASE) % BASE>> \o SubFrom(a, b, i + 1, IF d < 0 THEN 1 ELSE 0)

\* a - b for a >= b
Sub(a, b) == SubFrom(a, b, 1, 0)

\* a / 1000 of u64: the quotient, rounded down
DivThousand(a) ==
    [i \in 1 .. WIDE |-> IF i < WIDE THEN a[i + 1] ELSE 0]

\* a + b and a += b of u64: with overflow checks (the default of a debug
\* build) a sum of 2^64 or more panics, without them (the default of a
\* release build) it wraps
add_u64(a, b, overflow_checks) ==
    LET sum == Add(a, b) IN
    IF Less(sum, TWO_64) THEN Ok(sum)
    ELSE IF overflow_checks THEN Err("panic", "attempt to add with overflow")
    ELSE Ok(Sub(sum, TWO_64))

\* amt.as_ref().map(|amt| amt.msat).unwrap_or(0)
MsatOrZero(amount) == IF IsSome(amount) THEN amount.v ELSE Limbs(0)

\* the loop over funds.outputs, up to output n
RECURSIVE OnchainLoop(_, _, _)
OnchainLoop(outputs, n, overflow_checks) ==
    IF n = 0 THEN Ok(Limbs(0))
    ELSE LET onchain_balance_msat == OnchainLoop(outputs, n - 1, overflow_checks) IN
         IF ~onchain_balance_msat.ok THEN onchain_balance_msat
         ELSE IF outputs[n].status = 1
              THEN add_u64(onchain_balance_msat.v, MsatOrZero(outputs[n].amount_msat),
                           overflow_checks)
              ELSE onchain_balance_msat

\* the loop over funds.channels, up to channel n
RECURSIVE ChannelLoop(_, _, _)
ChannelLoop(channels, n, overflow_checks) ==
    IF n = 0 THEN Ok(Limbs(0))
    ELSE LET channel_balance_msat == ChannelLoop(channels, n - 1, overflow_checks) IN
         IF ~channel_balance_msat.ok THEN channel_balance_msat
         ELSE add_u64(channel_balance_msat.v, MsatOrZero(channels[n].our_amount_msat),
                      overflow_checks)

\* get_balance from the answer of list_funds on: the two loops and the JSON
\* value
get_balance(funds_response, overflow_checks) ==
    IF ~funds_response.ok THEN funds_response
    ELSE LET funds == funds_response.v
             onchain == OnchainLoop(funds.outputs, Len(funds.outputs), overflow_checks)
             channel == ChannelLoop(funds.channels, Len(funds.channels), overflow_checks)
         IN IF ~onchain.ok THEN onchain
            ELSE IF ~channel.ok THEN channel
            ELSE LET total == add_u64(onchain.v, channel.v, overflow_checks) IN
                 IF ~total.ok THEN total
                 ELSE Ok([onchain_balance_sat |-> DivThousand(onchain.v),
                          onchain_balance_msat |-> onchain.v,
                          channel_balance_sat |-> DivThousand(channel.v),
                          channel_balance_msat |-> channel.v,
                          total_balance_sat |-> DivThousand(total.v),
                          total_balance_msat |-> total.v])

\* at most this many outputs and this many channels are listed
MaxOutputs == 2
MaxChannels == 2

\* the amounts of the answer: None, 999 and 1000 msat, and u64::MAX
Amounts == {None, Some(Limbs(999)), Some(Limbs(1000)), Some(Sub(TWO_64, Limbs(1)))}

SeqsUpTo(S, n) == UNION {[1 .. k -> S] : k \in 0 .. n}

\* the answer of list_funds: outputs with their status (a number that the
\* handler compares with 1: 0 unconfirmed, 1 confirmed, 2 spent) and amount,
\* channels with our amount; or the call fails.  overflow_checks is the
\* build profile
InitBalance ==
    /\ users = <<>>
    /\ req = [r \in Slots |-> IdleReq]
    /\ now = 0
    /\ ws = NoSocket
    /\ \E overflow_checks \in BOOLEAN :
          \/ \E os \in SeqsUpTo([status : {0, 1, 2}, amount_msat : Amounts], MaxOutputs),
                cs \in SeqsUpTo([our_amount_msat : Amounts], MaxChannels) :
                cx = [pc |-> "balance inputs",
                      funds_response |-> Ok([outputs |-> os, channels |-> cs]),
                      overflow_checks |-> overflow_checks]
          \/ cx = [pc |-> "balance inputs",
                   funds_response |-> Err("Greenlight", "Failed to get balance"),
                   overflow_checks |-> overflow_checks]

\* get_balance on the answer of list_funds
BxGetBalance ==
    /\ cx.pc = "balance inputs"
    /\ cx' = [pc |-> "balance", funds_response |-> cx.funds_response,
              overflow_checks |-> cx.overflow_checks,
              out |-> get_balance(cx.funds_response, cx.overflow_checks)]
    /\ UNCHANGED <<users, req, now, ws>>

SpecBalance == InitBalance /\ [][BxGetBalance]_vars

(***************************************************************************)
(* Properties                                                              *)
(***************************************************************************)
IsDone(r, op) == req[r].op = op /\ req[r].pc = "done"
Failed(r, kind) == ~req[r].result.ok /\ req[r].result.kind = kind
Registered(rows, id) == id \in DOMAIN rows /\ IsSome(rows[id].encrypted_device_creds)

\* a finished register_node request that found the account without
\* credentials, recovered a seed and got credentials from the scheduler
RegisterRan(r) ==
    /\ IsDone(r, "register")
    /\ req[r].calls # <<>>
    /\ ~Failed(r, "Greenlight")

\* C1: of two register_node requests for the same account that both found it
\* without credentials, both with a valid seed and password, exactly one
\* returns credentials and the other fails with Conflict.
C1_ExactlyOneRegisterSucceeds ==
    \A r1, r2 \in Slots :
        (r1 # r2 /\ RegisterRan(r1) /\ RegisterRan(r2) /\ req[r1].user_id = req[r2].user_id)
        => \/ req[r1].result.ok /\ Failed(r2, "Conflict")
           \/ req[r2].result.ok /\ Failed(r1, "Conflict")

\* the account a request carrying `header` is authenticated as
AuthId(header) == auth_middleware(users, header, now)

\* a register_node request starts for an account that has stored credentials
RegisterOnRegistered(r, header, encrypted_seed, password) ==
    /\ RegisterStart(r, header, encrypted_seed, password)
    /\ AuthId(header).ok
    /\ Registered(users, AuthId(header).v)

C3_RegisterWriteConditional ==
    [][\A r \in Slots :
          (RegisterPersist(r) /\ Registered(users, req[r].user_id.v))
          => users'[req[r].user_id.v].encrypted_device_creds
                = users[req[r].user_id.v].encrypted_device_creds]_vars

\* C4: an account that has stored credentials has stored credentials in every
\* later state (no transition from Registered back to New), and no account
\* is ever removed.
C4_NeverBackToNew ==
    [][\A i \in DOMAIN users :
          Registered(users, i) => Registered(users', i)]_vars

\* C4 witness: an account is Registered and requests of every kind have been
\* served after its credentials were stored
C4_Witness ==
    /\ \E i \in DOMAIN users : Registered(users, i)
    /\ \E r1, r2 \in Slots :
          /\ r1 # r2
          /\ IsDone(r1, "recover") /\ req[r1].result.ok
          /\ IsDone(r2, "data") /\ req[r2].calls # <<>>

\* C5: a register_node request that fails at seed decryption, at mnemonic
\* validation or at the scheduler's register call has written nothing: none of
\* its steps changes the users table.
C5_FailedRegisterPersistsNothing ==
    [][\A r \in Slots :
          /\ (req'[r] # req[r] /\ req'[r].op = "register" /\ req[r].pc # "persist")
             => users' = users
          /\ (req'[r] # req[r] /\ req'[r].op = "register" /\ req'[r].pc = "done"
                /\ ~req'[r].result.ok
                /\ req'[r].result.kind \in {"Cryptography", "Validation", "Greenlight"})
             => users' = users]_vars

\* C5 witness: a register_node request failed at the scheduler's register call
C5_Witness ==
    \E r \in Slots :
        /\ IsDone(r, "register")
        /\ Failed(r, "Greenlight")
        /\ req[r].calls # <<>>

\* a finished login for a key that has no account / for an existing account
\* whose password did not verify (a login that failed at generate_token had
\* the right password)
LoginMissing(r) == IsDone(r, "login") /\ ~IsSome(req[r].user_id)
LoginWrongPassword(r) ==
    /\ IsDone(r, "login") /\ IsSome(req[r].user_id) /\ ~req[r].result.ok
    /\ req[r].result # generate_token(JwtSecret, req[r].user_id.v, now, FALSE)

\* C6: login with a key that has no account and login with an existing key
\* and a wrong password return the same error (kind Authentication, never
\* NotFound, same message) and the same response to the client.
C6_LoginFailuresIndistinguishable ==
    \A r1, r2 \in Slots :
        (LoginMissing(r1) /\ LoginWrongPassword(r2))
        => /\ ~req[r1].result.ok
           /\ req[r1].result.kind = "Authentication"
           /\ req[r2].result.kind = "Authentication"
           /\ req[r1].result.msg = req[r2].result.msg
           /\ Response(req[r1].result, 200) = Response(req[r2].result, 200)

\* C6 witness: both kinds of failed login have been answered
C6_Witness ==
    \E r1, r2 \in Slots : LoginMissing(r1) /\ LoginWrongPassword(r2)

\* C7: login returns a token only if an account with the given key exists and
\* the password is the one its stored hash was computed from; the token
\* verifies to that account's id and to the id of no other account.
C7_LoginTokenOnlyForOwner ==
    [][\A r \in Slots, pk \in PublicKeys, pw \in Passwords :
          (Login(r, pk, pw) /\ req'[r].result.ok)
          => \E i \in DOMAIN users :
                /\ users[i].public_key = pk
                /\ users[i].password_hash.fmt = "phc"
                /\ users[i].password_hash.pw = pw
                /\ get_user_id_from_token(JwtSecret, req'[r].result.v.token, now) = Ok(users[i].id)
                /\ \A j \in DOMAIN users :
                      j # i => get_user_id_from_token(JwtSecret, req'[r].result.v.token, now)
                                  # Ok(users[j].id)]_vars

\* C7 witness: a login has returned a token while two accounts exist
C7_Witness ==
    /\ Len(users) = 2
    /\ \E r \in Slots : IsDone(r, "login") /\ req[r].result.ok

\* a signup request starts with a key that belongs to a stored account
SignupOnExistingKey(r, public_key, password) ==
    /\ SignupCheck(r, public_key, password)
    /\ \E i \in DOMAIN users : users[i].public_key = public_key

C9_ValidationCountsCharacters ==
    [][\A r \in Slots, pk \in PublicKeys, pw \in Passwords :
          (SignupCheck(r, pk, pw) /\ ~\E i \in DOMAIN users : users[i].public_key = pk)
          => ((pk = "" \/ CharCount(pw) < 8)
                <=> (req'[r].pc = "done" /\ ~req'[r].result.ok
                       /\ req'[r].result.kind = "Validation"))]_vars

\* C10: no two accounts share a public key, and of the signups for one key at
\* most one succeeds, in every interleaving of signup requests.
C10_IdentityKeysUnique ==
    /\ \A i, j \in DOMAIN users : i # j => users[i].public_key # users[j].public_key
    /\ \A r1, r2 \in Slots :
          (r1 # r2 /\ IsDone(r1, "signup") /\ req[r1].result.ok
                   /\ IsDone(r2, "signup") /\ req[r2].result.ok)
          => users[req[r1].user_id.v].public_key # users[req[r2].user_id.v].public_key

\* C10 witness: two signups for one key both passed the existence check; one
\* created the account and the other was refused by the insert
C10_Witness ==
    \E r1, r2 \in Slots :
        /\ IsDone(r1, "signup") /\ req[r1].result.ok
        /\ IsDone(r2, "signup") /\ Failed(r2, "Database")

\* C11: a successful signup creates exactly one new account, in state New (no
\* stored credentials), whose stored password hash verifies the supplied
\* password and whose stored encrypted seed is the blob returned to the
\* caller; the blob decodes to at least 44 bytes and decrypts under the
\* supplied password to a valid mnemonic, and the returned token verifies to
\* the new account's id.
C11_SignupCreatesNewAccount ==
    [][/\ \A r \in Slots, pk \in PublicKeys, pw \in Passwords :
            (SignupCheck(r, pk, pw) /\ req'[r].pc = "create_user")
            => LET loc == req'[r].loc
                   decoded == B64Decode(loc.encrypted_seed)
                   mnemonic == decrypt(loc.encrypted_seed, pw)
               IN /\ loc.public_key = pk
                  /\ verify_password(pw, loc.password_hash) = Ok(TRUE)
                  /\ decoded.ok /\ BytesLen(decoded.v) >= 44
                  /\ mnemonic.ok /\ validate_mnemonic(mnemonic.v) = Ok(TRUE)
       /\ \A r \in Slots :
            (SignupInsert(r) /\ req'[r].result.ok)
            => LET id == req'[r].user_id.v IN
               /\ Len(users') = Len(users) + 1
               /\ SubSeq(users', 1, Len(users)) = users
               /\ id = Len(users')
               /\ users'[id].id = id
               /\ users'[id].public_key = req[r].loc.public_key
               /\ users'[id].password_hash = req[r].loc.password_hash
               /\ users'[id].encrypted_seed = Some(req[r].loc.encrypted_seed)
               /\ users'[id].encrypted_seed = Some(req'[r].result.v.encryptedSeed)
               /\ ~IsSome(users'[id].encrypted_device_creds)
               /\ get_user_id_from_token(JwtSecret, req'[r].result.v.token, now) = Ok(id)
               /\ Response(req'[r].result, 201).status = 201]_vars

\* C11 witness: a signup has returned the blob stored for the account it
\* created, and the account has no credentials
C11_Witness ==
    \E r \in Slots :
        /\ IsDone(r, "signup") /\ req[r].result.ok
        /\ users[req[r].user_id.v].encrypted_seed = Some(req[r].result.v.encryptedSeed)
        /\ ~Registered(users, req[r].user_id.v)

\* C12: whenever signup or recover_node returns an error to its caller, at
\* whatever step (token issuance after the insert in signup, serialization or
\* encryption after the scheduler call in recover_node included), no step of
\* that request has changed the users table.
C12_FailedSignupOrRecoverPersistsNothing ==
    [][\A r \in Slots :
          (req'[r] # req[r] /\ req'[r].op \in {"signup", "recover"})
          => /\ req'[r].pc # "done" => users' = users
             /\ (req'[r].pc = "done" /\ ~req'[r].result.ok) => users' = users]_vars

\* C13: recover_node does not require the absence of stored credentials: with
\* a seed and password that decrypt to a valid mnemonic it calls the scheduler
\* whether the account is New or Registered, and when it succeeds the stored
\* credentials are the ones made from this call's scheduler answer (the value
\* returned to the caller; earlier credentials are overwritten), the account
\* is Registered and every later register_node for it is rejected.
C13_RecoverOverwrites ==
    [][/\ \A r \in Slots, h \in Headers, pw \in Passwords : \A es \in SeedInputs(pw) :
            (RecoverStart(r, h, es, pw) /\ AuthId(h).ok /\ SeedFromRequest(es, pw).ok)
            => /\ req'[r].pc = "provisioning"
               /\ req'[r].calls = <<[fn |-> "recover", arg |-> SeedFromRequest(es, pw).v]>>
       /\ \A r \in Slots :
            (RecoverPersist(r) /\ req'[r].result.ok)
            => LET id == req[r].user_id.v
                   stored == users'[id].encrypted_device_creds
               IN /\ Registered(users', id)
                  /\ stored = Some(req'[r].result.v.encryptedDeviceCreds)
                  /\ decrypt(stored.v, req[r].loc.password)
                        = Ok(ToJson(req[r].loc.device_creds))
                  /\ \A pw \in Passwords : \A es \in SeedInputs(pw) :
                        register_node_check(find_by_id(users', id), es, pw)
                          = Some(Err("BadRequest", "Node already registered for this user"))]_vars

\* C13 witness: a register_node and a later recover_node of one account have
\* both succeeded, and the stored credentials are those of the recover_node
C13_Witness ==
    \E r1, r2 \in Slots :
        /\ IsDone(r1, "register") /\ req[r1].result.ok
        /\ IsDone(r2, "recover") /\ req[r2].result.ok
        /\ req[r1].user_id = req[r2].user_id
        /\ users[req[r2].user_id.v].encrypted_device_creds
              = Some(req[r2].result.v.encryptedDeviceCreds)
        /\ req[r1].result.v.encryptedDeviceCreds # req[r2].result.v.encryptedDeviceCreds

\* the credentials of the scheduler from which a stored text was made: the
\* bytes under the base64 of register_node, the bytes inside the JSON sealed
\* in the blob of recover_node
CredentialOnFile(stored) ==
    LET bytes == stored.bytes IN
    IF Len(bytes) = 1 /\ bytes[1].v.t = "creds" THEN bytes
    ELSE bytes[3].v.data.creds

\* C14: register_node and recover_node put the credentials of their scheduler
\* answer on file, and for an account with credentials on file each node data
\* operation (info, balance, offer) passes to the scheduler exactly the
\* credential bytes the scheduler returned in the latest successful
\* register_node or recover_node of that account.
C14_DataOpsUseReturnedCredential ==
    [][/\ \A r \in Slots :
            ((RegisterPersist(r) \/ RecoverPersist(r)) /\ req'[r].result.ok)
            => CredentialOnFile(users'[req[r].user_id.v].encrypted_device_creds.v)
                 = req[r].loc.device_creds.creds
       /\ \A r \in Slots, fn \in DataOps, h \in Headers :
            (NodeData(r, fn, h) /\ AuthId(h).ok /\ Registered(users, AuthId(h).v))
            => req'[r].calls
                 = <<[fn |-> fn,
                      arg |-> CredentialOnFile(
                                 users[AuthId(h).v].encrypted_device_creds.v)]>>]_vars

\* C15: a node data operation (info, balance, offer) on an account with no
\* stored credentials fails with BadRequest and never calls the scheduler.
C15_DataOpWithoutCredentialRejected ==
    [][\A r \in Slots, fn \in DataOps, h \in Headers :
          (NodeData(r, fn, h) /\ AuthId(h).ok /\ ~Registered(users, AuthId(h).v))
          => /\ req'[r].pc = "done"
             /\ req'[r].result = Err("BadRequest", "No node registered for this user")
             /\ into_response(req'[r].result).status = 400
             /\ req'[r].calls = <<>>
             /\ users' = users]_vars

\* C15 witness: a node data operation of an account without credentials has
\* been answered
C15_Witness ==
    \E r \in Slots :
        /\ IsDone(r, "data")
        /\ IsSome(req[r].user_id)
        /\ ~Registered(users, req[r].user_id.v)
        /\ Failed(r, "BadRequest")
        /\ req[r].calls = <<>>

\* the account a header is a session of: the header carries a token signed
\* under the server's secret, not expired beyond the verifier's leeway, whose
\* subject is the id of a stored account; None otherwise
SessionOf(header) ==
    IF /\ IsSome(header)
       /\ header.v.fmt = "jwt"
       /\ header.v.key = JwtSecret
       /\ now <= header.v.claims.exp + LEEWAY
       /\ header.v.claims.sub.fmt = "uuid"
       /\ header.v.claims.sub.id \in DOMAIN users
    THEN Some(header.v.claims.sub.id)
    ELSE None

\* a node operation (register_node, recover_node, info, balance, offer)
\* starts with `header`
NodeOpStart(r, header) ==
    /\ req[r].pc = "idle"
    /\ req'[r].op \in {"register", "recover", "data"}
    /\ \/ \E pw \in SessionPasswords : \E es \in SeedInputs(pw) :
             RegisterStart(r, header, es, pw)
       \/ \E pw \in SessionPasswords : \E es \in SeedInputs(pw) :
             RecoverStart(r, header, es, pw)
       \/ \E fn \in DataOps : NodeData(r, fn, header)

\* C16: no node operation runs unless the request carries a Bearer token that
\* verifies (signature and expiry) to the id of an existing account: without
\* one the request is answered 401, calls nothing and writes nothing; with
\* one the operation acts as that account, reads the stored credentials of
\* that account only and writes no other account's row, so a session of
\* account A never changes account B's credentials.
C16_NodeOpsRequireOwnSession ==
    [][/\ \A r \in Slots, h \in Headers :
            NodeOpStart(r, h)
            => IF ~IsSome(SessionOf(h))
               THEN /\ req'[r].pc = "done"
                    /\ ~req'[r].result.ok
                    /\ req'[r].result.kind = "Authentication"
                    /\ into_response(req'[r].result).status = 401
                    /\ req'[r].calls = <<>>
                    /\ users' = users
               ELSE /\ req'[r].user_id = SessionOf(h)
                    /\ (req'[r].op = "data" /\ req'[r].calls # <<>>)
                       => Ok(req'[r].calls[1].arg)
                            = B64Decode(users[SessionOf(h).v].encrypted_device_creds.v)
       /\ \A r \in Slots :
            (req'[r] # req[r] /\ req'[r].op \in {"register", "recover", "data"})
            => /\ req[r].pc # "idle" => req'[r].user_id = req[r].user_id
               /\ \A i \in DOMAIN users :
                     (~IsSome(req'[r].user_id) \/ i # req'[r].user_id.v)
                     => (i \in DOMAIN users' /\ users'[i] = users[i])]_vars

\* C16 witness: while two accounts exist and the clock has passed a token's
\* expiry, a session of account 1 has stored credentials for account 1, and
\* the credentials account 2 holds are another session's
C16_Witness ==
    /\ Len(users) = 2
    /\ now > TOKEN_LIFETIME + LEEWAY
    /\ Registered(users, 2)
    /\ IsDone("r1", "recover") /\ req["r1"].result.ok
    /\ req["r1"].user_id = Some(1)
    /\ users[1].encrypted_device_creds = Some(req["r1"].result.v.encryptedDeviceCreds)
    /\ users[2].encrypted_device_creds # users[1].encrypted_device_creds

\* C17: round trip: for every password P and plaintext M, and every draw of
\* the salt and the nonce, encrypt(M, P) succeeds and
\* decrypt(encrypt(M, P), P) succeeds and returns M.
C17_RoundTrip ==
    /\ cx.pc \in {"encrypted", "encrypted twice", "decrypted"} => cx.blob.ok
    /\ cx.pc = "encrypted twice" => cx.blob2.ok
    /\ (cx.pc = "decrypted" /\ cx.password2 = cx.password) => cx.out = Ok(cx.data)

\* C17 witness: a mnemonic encrypted with the second salt and nonce has been
\* decrypted under the password it was encrypted with
C17_Witness ==
    /\ cx.pc = "decrypted"
    /\ cx.password2 = cx.password
    /\ cx.data = MnemonicFromEntropy("e1")
    /\ cx.salt = RandomSalt("s2") /\ cx.nonce = RandomNonce("n2")
    /\ cx.out.ok

\* the account row of a signup whose encrypted seed is `blob`
NewAccountWithSeed(blob) ==
    create_user(<<>>, "pk1", hash_password("password123", RandomSalt("s1")).v, blob, 0).res.v

\* decrypt(encrypt(M, P), P2) has failed with a Cryptography error, and
\* register_node and recover_node given that blob and P2 return an error
\* before they call the scheduler
RejectedBeforeProvisioning ==
    /\ ~cx.out.ok
    /\ cx.out.kind = "Cryptography"
    /\ register_node_check(Some(NewAccountWithSeed(cx.blob.v)), cx.blob.v, cx.password2)
          = Some(cx.out)
    /\ SeedFromRequest(cx.blob.v, cx.password2) = cx.out

\* two different passwords that HMAC-SHA256 takes for the same key: they
\* differ only in trailing U+0000 characters, or one is longer than 64 bytes
\* and the other is the text of its SHA-256 digest
SameHmacKey(p, q) ==
    \/ {p, q} = {"password123", "password123 U+0000"}
    \/ {p, q} = {"seventy-byte password", "sha256(seventy-byte password)"}

\* C18 (as stated): for all passwords P # P2 and every plaintext M,
\* decrypt(encrypt(M, P), P2) fails with a Cryptography error and returns no
\* plaintext, so register_node and recover_node called with a wrong password
\* for the blob fail before the scheduler is called.
C18_EveryOtherPasswordFails ==
    (cx.pc = "decrypted" /\ cx.password2 # cx.password) => RejectedBeforeProvisioning

\* C18 (amended): for all passwords P # P2 that HMAC-SHA256 does not take for
\* the same key, and every plaintext M, decrypt(encrypt(M, P), P2) fails with
\* a Cryptography error and returns no plaintext, so register_node and
\* recover_node fail before the scheduler is called; for P # P2 that HMAC
\* takes for the same key, decrypt(encrypt(M, P), P2) returns M.
C18_WrongPasswordFails ==
    (cx.pc = "decrypted" /\ cx.password2 # cx.password)
    => IF SameHmacKey(cx.password, cx.password2)
       THEN cx.out = Ok(cx.data)
       ELSE RejectedBeforeProvisioning

\* C18 witness: a mnemonic encrypted under one password has been given to
\* decrypt with a password that is another HMAC key, and decrypt has failed
C18_Witness ==
    /\ cx.pc = "decrypted"
    /\ cx.data = MnemonicFromEntropy("e1")
    /\ cx.password = "password123" /\ cx.password2 = "U+00E9 x4"
    /\ cx.out = Err("Cryptography", "Decryption failed")

\* a finished register_node or recover_node request to which decrypt
\* returned its error
DecryptFailed(r) ==
    /\ IsDone(r, "register") \/ IsDone(r, "recover")
    /\ Failed(r, "Cryptography")

\* C19: the failure causes of decrypt (not base64, blob too short,
\* authentication fails) cannot be told apart: any two failing calls return the
\* same error, and the callers of register_node / recover_node receive the
\* same response, which does not tell which step failed.
C19_DecryptFailuresIdentical ==
    \A r1, r2 \in Slots :
        (DecryptFailed(r1) /\ DecryptFailed(r2))
        => /\ req[r1].result = req[r2].result
           /\ Response(req[r1].result, 200) = Response(req[r2].result, 200)

\* the bytes under the base64 of a blob
Decoded(blob) == B64Decode(blob.v).v

\* C20: for every plaintext M and password P the blob of encrypt(M, P)
\* decodes to exactly 32 (salt) + 12 (nonce) + len(M) + 16 (tag) bytes, laid
\* out as the salt, then the nonce, then the ciphertext; two encryptions of
\* the same (M, P) decode to the same length.
C20_BlobLayout ==
    /\ cx.pc \in {"encrypted", "encrypted twice", "decrypted"}
       => /\ B64Decode(cx.blob.v).ok
          /\ BytesLen(Decoded(cx.blob)) = 32 + 12 + StrLen(cx.data) + 16
          /\ Take(Decoded(cx.blob), 32) = cx.salt
          /\ Take(Drop(Decoded(cx.blob), 32), 12) = cx.nonce
          /\ Drop(Decoded(cx.blob), 44)
                = AeadSeal(derive_key(cx.password, cx.salt), cx.nonce, cx.data)
          /\ BytesLen(Drop(Decoded(cx.blob), 44)) = StrLen(cx.data) + 16
    /\ cx.pc = "encrypted twice"
       => /\ B64Decode(cx.blob2.v).ok
          /\ BytesLen(Decoded(cx.blob2)) = BytesLen(Decoded(cx.blob))
          /\ Take(Decoded(cx.blob2), 32) = cx.salt2
          /\ Take(Drop(Decoded(cx.blob2), 32), 12) = cx.nonce2

\* C20 witness: a mnemonic has been encrypted twice under one password, with
\* different salts and nonces, into different blobs
C20_Witness ==
    /\ cx.pc = "encrypted twice"
    /\ cx.password_b = cx.password
    /\ cx.data = MnemonicFromEntropy("e1")
    /\ cx.salt2 # cx.salt /\ cx.nonce2 # cx.nonce
    /\ cx.blob2 # cx.blob
    /\ BytesLen(Decoded(cx.blob)) = 212

\* C21: verify_password(pw, hash_password(pw)) is true for every password pw
\* (those of 8 and more bytes included) and every draw of the salt, and
\* verify_password(pw2, hash_password(pw)) is the value false, not an error,
\* for every pw2 different from pw.
C21_VerifyOwnHash ==
    /\ cx.pc \in {"hashed", "verified"} => cx.hash.ok
    /\ cx.pc = "verified"
       => /\ cx.out.ok
          /\ cx.out.v <=> (cx.password2 = cx.password)

\* C21 witness: the hash of a password of more than 8 bytes, made with the
\* second salt, has been verified against the same password followed by
\* U+0000, and the answer is false
C21_Witness ==
    /\ cx.pc = "verified"
    /\ ByteLen(cx.password) >= 8
    /\ cx.salt = RandomSalt("s2")
    /\ cx.password = "password123" /\ cx.password2 = "password123 U+0000"
    /\ cx.out = Ok(FALSE)

\* C22: session tokens round-trip and are bound to the signing secret: for
\* every account id, get_user_id_from_token of the token generate_token
\* returned is that id while the token is unexpired, and it fails with
\* Authentication (HTTP 401) for a token signed under another secret, for a
\* text that is no token, and for a token whose subject is not a UUID.
C22_TokenRoundTrip ==
    /\ cx.pc = "token verified"
       => /\ (cx.secret = JwtSecret /\ cx.at <= cx.token.v.claims.exp)
             => /\ cx.out = Ok(cx.user_id)
                /\ cx.claims.ok /\ cx.claims.v.sub = UuidToString(cx.user_id)
          /\ cx.out.ok => cx.out.v = cx.user_id
          /\ cx.secret # JwtSecret
             => /\ ~cx.out.ok /\ cx.out.kind = "Authentication"
                /\ into_response(cx.out).status = 401
    /\ cx.pc = "foreign token verified"
       => /\ ~cx.out.ok /\ cx.out.kind = "Authentication"
          /\ into_response(cx.out).status = 401

\* C22 witness: the token of account 2, issued after the start, has been
\* verified at its expiry time and yields account 2
C22_Witness ==
    /\ cx.pc = "token verified"
    /\ cx.secret = JwtSecret
    /\ cx.user_id = 2 /\ cx.iat > 0
    /\ cx.at = cx.token.v.claims.exp
    /\ cx.out = Ok(2)

\* C23: every issued session token has exp = iat + 86400 (exactly 24 hours),
\* and verification rejects the token at every time later than its exp: a
\* token is accepted only within 24 hours of its issue.
C23_ExpiresAfter24Hours ==
    /\ (cx.pc \in {"issued", "token verified"} /\ cx.token.ok)
       => /\ cx.token.v.claims.iat = cx.iat
          /\ cx.token.v.claims.exp = cx.token.v.claims.iat + 86400
    /\ (cx.pc = "token verified" /\ cx.at > cx.token.v.claims.exp)
       => ~cx.claims.ok /\ ~cx.out.ok
    /\ (cx.pc = "token verified" /\ cx.out.ok)
       => cx.at - cx.iat <= 86400

\* a finished request that was refused for its session or its login: a
\* missing Authorization header, a token that does not validate, a token of
\* no stored account, or a failed login
AuthenticationRefused(r) ==
    /\ req[r].pc = "done"
    /\ Failed(r, "Authentication")
    /\ req[r].result.msg # "Failed to generate token"

\* a finished request that failed in cryptography, at the scheduler, in the
\* database or in serialization
InternalFailure(r) ==
    /\ req[r].pc = "done"
    /\ ~req[r].result.ok
    /\ req[r].result.kind \in {"Cryptography", "Greenlight", "Database", "Internal"}

\* C24: all authentication failures (missing Authorization header, invalid or
\* expired token, token of an account that does not exist, failed login) are
\* answered with one and the same status and body, and cryptographic,
\* scheduler and storage failures are answered without their internal detail.
C24_AuthFailuresUniform ==
    /\ \A r1, r2 \in Slots :
          (AuthenticationRefused(r1) /\ AuthenticationRefused(r2))
          => Response(req[r1].result, 200) = Response(req[r2].result, 200)
    /\ \A r \in Slots :
          InternalFailure(r)
          => Response(req[r].result, 200)
                = [status |-> 500,
                   body |-> [status |-> "error", message |-> <<"Internal server error">>]]

\* a step of a register_node request in slot r
RegisterStep(r) == req'[r] # req[r] /\ req'[r].op = "register"

\* C25: within one register_node request the steps run in this order, each
\* at most once: credential-absence check, seed decryption, mnemonic
\* validation, seed derivation, the scheduler's register call, persistence,
\* response.  The scheduler is called only after all earlier steps succeeded
\* and is not called again after a failure (the failure is returned as a
\* Greenlight error), and the credentials are persisted only after the
\* scheduler returned them.
C25_RegisterStepOrder ==
    [][/\ \A r \in Slots, h \in Headers, pw \in Passwords : \A es \in SeedInputs(pw) :
            (RegisterStart(r, h, es, pw) /\ AuthId(h).ok)
            => LET mnemonic == decrypt(es, pw) IN
               /\ users' = users
               /\ IF Registered(users, AuthId(h).v)
                  THEN /\ req'[r].result
                            = Err("BadRequest", "Node already registered for this user")
                       /\ req'[r].calls = <<>>
                  ELSE IF ~mnemonic.ok
                  THEN /\ req'[r].pc = "done" /\ req'[r].result = mnemonic
                       /\ req'[r].result.kind = "Cryptography"
                       /\ req'[r].calls = <<>>
                  ELSE IF validate_mnemonic(mnemonic.v) # Ok(TRUE)
                  THEN /\ req'[r].pc = "done"
                       /\ req'[r].result = Err("Validation", "Invalid mnemonic")
                       /\ req'[r].calls = <<>>
                  ELSE /\ req'[r].pc = "provisioning"
                       /\ mnemonic_to_seed(mnemonic.v).ok
                       /\ req'[r].calls
                            = <<[fn |-> "register", arg |-> mnemonic_to_seed(mnemonic.v).v]>>
       /\ \A r \in Slots :
            RegisterStep(r)
            => /\ req[r].pc = "idle" => req'[r].pc \in {"done", "provisioning"}
               /\ req[r].pc = "provisioning"
                  => /\ req'[r].pc \in {"persist", "done"}
                     /\ req'[r].calls = req[r].calls
                     /\ users' = users
                     /\ req'[r].pc = "done"
                        => /\ Failed(r, "Greenlight")'
                           /\ into_response(req'[r].result).status = 500
               /\ req[r].pc = "persist"
                  => /\ req'[r].pc = "done" /\ req'[r].result.ok
                     /\ req'[r].calls = req[r].calls
                     /\ Len(req[r].calls) = 1
                     /\ req[r].loc.device_creds.creds \in Creds
                     /\ req'[r].result.v.encryptedDeviceCreds
                          = B64Encode(req[r].loc.device_creds.creds)
                     /\ users'[req[r].user_id.v].encrypted_device_creds
                          = Some(req'[r].result.v.encryptedDeviceCreds)
               /\ Len(req'[r].calls) <= 1
               /\ users' # users => req[r].pc = "persist"
               /\ req'[r].pc \in {"provisioning", "persist"} => ~IsSome(req'[r].result)]_vars

\* C25 witness: one register_node request went through all steps and
\* answered with the credentials it stored, and another one ended at the
\* failure of its single scheduler call
C25_Witness ==
    \E r1, r2 \in Slots :
        /\ IsDone(r1, "register") /\ req[r1].result.ok
        /\ Len(req[r1].calls) = 1
        /\ users[req[r1].user_id.v].encrypted_device_creds
              = Some(req[r1].result.v.encryptedDeviceCreds)
        /\ IsDone(r2, "register") /\ Failed(r2, "Greenlight")
        /\ Len(req[r2].calls) = 1

\* the input of the decrypt call under examination, base64-decoded
DecryptInput == B64Decode(IF cx.pc = "decrypted" THEN cx.blob.v ELSE cx.input)

\* C26: decrypt rejects every input whose base64 decoding is shorter than 44
\* bytes with the Cryptography error of its length test, which precedes key
\* derivation and the cipher call (so the answer does not depend on the
\* password); for 44 bytes and more its three slices lie inside the decoded
\* buffer, and for exactly 44 bytes the ciphertext slice is empty and the
\* call fails with the Cryptography error of the cipher: it never returns an
\* empty plaintext.
C26_ShortBlobRejected ==
    (cx.pc \in {"decrypted", "decrypted foreign"} /\ DecryptInput.ok)
    => LET data == DecryptInput.v
           n == BytesLen(data)
       IN /\ n < 44
             => /\ cx.out = Err("Cryptography", "Invalid encrypted data length")
                /\ \A p \in CryptoPasswords :
                      decrypt(B64Encode(data), p) = cx.out
          /\ n >= 44
             => /\ BytesLen(Take(data, SALT_SIZE)) = 32
                /\ BytesLen(Take(Drop(data, SALT_SIZE), NONCE_SIZE)) = 12
                /\ BytesLen(Drop(data, SALT_SIZE + NONCE_SIZE)) = n - 44
                /\ cx.out # Err("Cryptography", "Invalid encrypted data length")
          /\ n = 44
             => /\ Drop(data, SALT_SIZE + NONCE_SIZE) = <<>>
                /\ cx.out = Err("Cryptography", "Decryption failed")
          /\ cx.out.ok => n >= 44 + TAG_SIZE

\* C26 witness: decrypt has been given the base64 of a salt and a nonce and
\* nothing else (44 bytes), and has failed in the cipher
C26_Witness ==
    /\ cx.pc = "decrypted foreign"
    /\ cx.input = B64Encode(RandomSalt("s1") \o RandomNonce("n1"))
    /\ cx.out = Err("Cryptography", "Decryption failed")

\* the key and the nonce under which the ciphertext of a blob was sealed
SealedUnder(blob) ==
    LET sealed == Drop(Decoded(blob), SALT_SIZE + NONCE_SIZE)[1].v IN
    <<sealed.key, sealed.nonce>>

\* C27: a nonce is never reused under a given key: two encrypt calls (with
\* the same plaintext and password, or with another password) never seal
\* under the same (derived key, nonce) pair, also when they drew the same
\* nonce or the same salt, and two encryptions of the same (M, P) yield
\* different blobs.
C27_NoNonceReuse ==
    cx.pc = "encrypted twice"
    => /\ SealedUnder(cx.blob) = <<derive_key(cx.password, cx.salt), cx.nonce>>
       /\ SealedUnder(cx.blob2) = <<derive_key(cx.password_b, cx.salt2), cx.nonce2>>
       /\ SealedUnder(cx.blob) # SealedUnder(cx.blob2)
       /\ cx.blob2 # cx.blob

\* C27 witness: the same plaintext has been encrypted twice under the same
\* password, and the second call drew the nonce of the first with another salt
C27_Witness ==
    /\ cx.pc = "encrypted twice"
    /\ cx.password_b = cx.password
    /\ cx.nonce2 = cx.nonce
    /\ cx.salt2 # cx.salt
    /\ cx.blob.ok /\ cx.blob2.ok

\* C28: verify_password keeps two failure classes apart: a hash string that
\* parses and does not match the password (the hash of another password, or
\* of another algorithm) yields the value false, a hash string that does not
\* parse yields a Cryptography error and neither true nor false; login for an
\* account whose stored hash does not parse returns that error (HTTP 500)
\* and never a token.
C28_MalformedHashIsError ==
    /\ (cx.pc = "verified" /\ cx.password2 # cx.password) => cx.out = Ok(FALSE)
    /\ cx.pc = "verified stored"
       => IF cx.hash.fmt = "phc"
          THEN /\ cx.out = Ok(FALSE)
               /\ cx.login = Err("Authentication", "Invalid credentials")
          ELSE /\ ~cx.out.ok
               /\ cx.out.kind = "Cryptography"
               /\ cx.login = cx.out
               /\ Response(cx.login, 200).status = 500

\* C28 witness: verify_password and login have answered for an account whose
\* stored hash is a PHC string cut off inside its parameters
C28_Witness ==
    /\ cx.pc = "verified stored"
    /\ cx.hash = TruncatedPhc
    /\ cx.password2 = "password123"
    /\ ~cx.out.ok
    /\ ~cx.login.ok

\* the phrase examined in a state of generate_mnemonic or of a given text
PhraseText == IF cx.pc = "generated" THEN cx.phrase.v ELSE cx.phrase

\* C29: validate_mnemonic never returns an error, whatever the text, and
\* returns true for every output of generate_mnemonic (and false for a phrase
\* whose checksum word was exchanged); mnemonic_to_seed succeeds exactly on
\* the texts for which validate_mnemonic returns true and fails with a
\* Cryptography error on all others; its result is 64 bytes that depend on
\* the phrase only.
C29_SeedPhraseFunctions ==
    /\ cx.pc = "generated"
       => /\ cx.phrase.ok
          /\ cx.valid = Ok(TRUE)
          /\ cx.seed.ok
    /\ cx.pc \in {"generated", "phrase"}
       => /\ cx.valid.ok
          /\ cx.seed.ok <=> cx.valid.v
          /\ ~cx.seed.ok => cx.seed.kind = "Cryptography"
          /\ cx.seed.ok
             => /\ BytesLen(cx.seed.v) = 64
                /\ cx.seed.v = Bytes([t |-> "seed", of |-> PhraseText.entropy], 64)
                /\ mnemonic_to_seed(PhraseText) = cx.seed
    /\ (cx.pc = "phrase" /\ cx.phrase \in {FlippedChecksum(e) : e \in VaultEntropies})
       => cx.valid = Ok(FALSE)

\* C29 witness: the phrase generate_mnemonic made from the second entropy has
\* been validated and turned into its seed
C29_Witness ==
    /\ cx.pc = "generated"
    /\ cx.entropy = "e2"
    /\ cx.valid = Ok(TRUE)
    /\ cx.seed.ok

\* a recover_node request persists and answers successfully
RecoverSucceeds(r) == RecoverPersist(r) /\ req'[r].result.ok

\* after the persist step of recover_node the stored text is the text
\* returned to the caller, it decrypts under the request's password to the
\* JSON of the credentials the scheduler's recover call returned, and it is
\* not the plain (base64) form of these credentials
StoredIsReturnedAndSealed(r) ==
    LET id == req[r].user_id.v
        returned == req'[r].result.v.encryptedDeviceCreds
    IN /\ users'[id].encrypted_device_creds = Some(returned)
       /\ req[r].calls = <<[fn |-> "recover", arg |-> req[r].calls[1].arg]>>
       /\ decrypt(returned, req[r].loc.password) = Ok(ToJson(req[r].loc.device_creds))
       /\ returned # B64Encode(req[r].loc.device_creds.creds)
       /\ Drop(B64Decode(returned).v, SALT_SIZE + NONCE_SIZE)[1].v.t = "sealed"

\* C30 (as stated): after a successful recover_node the persisted value is
\* the value returned to the caller, decrypting it with the caller's password
\* yields the credential the scheduler's recover call returned, and the
\* credential is stored encrypted under the account's password (the password
\* the account's stored hash verifies), never in plain form.
C30_StoredUnderAccountPassword ==
    [][\A r \in Slots :
          RecoverSucceeds(r)
          => /\ StoredIsReturnedAndSealed(r)
             /\ verify_password(req[r].loc.password,
                                 users[req[r].user_id.v].password_hash) = Ok(TRUE)]_vars

\* C30 (amended): after a successful recover_node the persisted value is the
\* value returned to the caller, it is never the plain form of the
\* credential, and it decrypts to the JSON of the credential the scheduler's
\* recover call returned under the password sent with the request (and the
\* passwords that are the same HMAC key), and under no other password; the
\* password of the request need not be the account's password.
C30_StoredUnderRequestPassword ==
    [][\A r \in Slots :
          RecoverSucceeds(r)
          => /\ StoredIsReturnedAndSealed(r)
             /\ \A q \in CryptoPasswords :
                   decrypt(req'[r].result.v.encryptedDeviceCreds, q).ok
                   <=> HmacKey(q) = HmacKey(req[r].loc.password)]_vars

\* C30 witness: a recover_node with a blob the client encrypted under
\* "hunter2" has succeeded for an account whose password is "password123";
\* the stored text is the returned one and decrypts under "hunter2"
C30_Witness ==
    \E r \in Slots :
        /\ IsDone(r, "recover") /\ req[r].result.ok
        /\ users[req[r].user_id.v].encrypted_device_creds
              = Some(req[r].result.v.encryptedDeviceCreds)
        /\ decrypt(req[r].result.v.encryptedDeviceCreds, "hunter2").ok
        /\ verify_password("password123", users[req[r].user_id.v].password_hash) = Ok(TRUE)

\* the columns of a row that are fixed when the row is inserted
Fixed(user) ==
    <<user.id, user.public_key, user.password_hash, user.encrypted_seed, user.created_at>>

\* C31: no step of any request changes the id, public_key, password_hash or
\* encrypted_seed of an existing row or removes a row; a step of a
\* register_node or recover_node request either leaves the users table as it
\* is or changes exactly the encrypted_device_creds and updated_at of the row
\* of the authenticated account.
C31_SeedAndLoginMaterialImmutable ==
    [][/\ \A i \in DOMAIN users :
            i \in DOMAIN users' /\ Fixed(users'[i]) = Fixed(users[i])
       /\ \A r \in Slots :
            (req'[r] # req[r] /\ req'[r].op \in {"register", "recover"})
            => \/ users' = users
               \/ /\ IsSome(req[r].user_id)
                  /\ req[r].user_id.v \in DOMAIN users
                  /\ LET id == req[r].user_id.v IN
                     users' = [users EXCEPT
                                 ![id].encrypted_device_creds = users'[id].encrypted_device_creds,
                                 ![id].updated_at = users'[id].updated_at]]_vars

\* C31 witness: of two accounts one has been given credentials by a
\* register_node or recover_node that has just succeeded, after the clock has
\* moved, and the other account is as it was inserted
C31_Witness ==
    /\ Len(users) = 2
    /\ req["r1"].op \in {"register", "recover"} /\ req["r1"].pc = "done"
    /\ req["r1"].result.ok
    /\ LET id == req["r1"].user_id.v IN
       /\ users[id].encrypted_device_creds
             = Some(req["r1"].result.v.encryptedDeviceCreds)
       /\ users[id].updated_at = now /\ users[id].updated_at > users[id].created_at
       /\ \A j \in DOMAIN users \ {id} :
             /\ ~IsSome(users[j].encrypted_device_creds)
             /\ users[j].updated_at = users[j].created_at

\* C32: a step of a login request or of a get_node_info, get_balance or
\* create_offer request, whatever it answers, leaves the users table as it
\* was: no row is inserted and no row is changed.
C32_LoginAndDataOpsReadOnly ==
    [][\A r \in Slots :
          (req'[r] # req[r] /\ req'[r].op \in {"login", "data"}) => users' = users]_vars

\* C32 witness: a login with the account's password has been answered with a
\* token at a time later than the account's last update, in a table of two
\* rows
C32_Witness ==
    /\ Len(users) = 2
    /\ IsDone("r1", "login") /\ req["r1"].result.ok
    /\ users[req["r1"].user_id.v].updated_at < now

\* a turn of the loop of an open connection on a text frame; a turn on
\* another frame, on an error or on the end of the stream is TextTurn false
TextTurn == ws.pc = "open" /\ ws'.pc \in {"open", "closed"} /\ ws'.last.event = "text"

\* the connection is open and authenticated
Authenticated(s) == s.pc = "open" /\ s.authenticated

\* no command reaches the scheduler before the authentication message
NoDispatchBeforeAuth ==
    (TextTurn /\ IsSome(ws'.last.call)) => Authenticated(ws)

\* a first text that is no authentication message is answered with the
\* failure response and ends the loop
BadFirstTextEnds ==
    (TextTurn /\ ~ws.authenticated /\ ~ParseAuthMessage(ws'.last.text).ok)
    => /\ ws'.last.response = Some(AuthFailed)
       /\ ws'.pc = "closed"
       /\ ~ws'.authenticated /\ ~IsSome(ws'.last.call)

\* a first text that is an authentication message authenticates the
\* connection with its fields and is answered with the success response
GoodFirstTextAuthenticates ==
    (TextTurn /\ ~ws.authenticated /\ ParseAuthMessage(ws'.last.text).ok)
    => /\ ws'.authenticated
       /\ ws'.encrypted_creds = Some(ParseAuthMessage(ws'.last.text).v.encrypted_device_creds)
       /\ ws'.password = Some(ParseAuthMessage(ws'.last.text).v.password)
       /\ ws'.last.response = Some(AuthOk)

\* an authenticated connection stays authenticated, with the same fields
StaysAuthenticated ==
    (Authenticated(ws) /\ ws'.pc \in {"open", "closed"})
    => /\ ws'.authenticated
       /\ ws'.encrypted_creds = ws.encrypted_creds /\ ws'.password = ws.password

\* a malformed command of an authenticated connection is answered with the
\* error response and does not end the loop
MalformedCommandKeepsOpen ==
    (TextTurn /\ Authenticated(ws) /\ ~ParseWebSocketMessage(ws'.last.text).ok)
    => /\ ws'.last.response = Some(InvalidFormat)
       /\ ws'.pc = "open"
       /\ ~IsSome(ws'.last.call)

\* a Close frame and the end of the stream end the loop
CloseAndEndOfStreamEnd ==
    (ws.pc = "open" /\ ws'.pc \in {"open", "closed"}
        /\ ws'.last.event \in {"close", "end of stream"})
    => ws'.pc = "closed"

\* the loop ends on nothing else than a Close frame, the end of the stream, a
\* failed send or a first text that is no authentication message
EndsOnlyOn ==
    (ws.pc = "open" /\ ws'.pc = "closed")
    => \/ ws'.last.event \in {"close", "end of stream"}
       \/ TextTurn /\ ~ws'.last.sent
       \/ TextTurn /\ ~ws.authenticated /\ ~ParseAuthMessage(ws'.last.text).ok

\* the response that was not delivered is the one to a malformed command
UndeliveredInvalidFormat ==
    TextTurn /\ Authenticated(ws) /\ ~ParseWebSocketMessage(ws'.last.text).ok

\* C33: no command is dispatched to the scheduler before an authentication
\* message was received; a first text that is none is answered with the failure
\* response and ends the connection; an authenticated connection stays
\* authenticated, and a malformed command is answered with an error without
\* ending the connection; the loop ends on a Close frame, on the end of the
\* stream and on every failed send.
C33_WebSocketProtocol ==
    [][/\ NoDispatchBeforeAuth
       /\ BadFirstTextEnds
       /\ StaysAuthenticated
       /\ MalformedCommandKeepsOpen \/ (TextTurn /\ ~ws'.last.sent)
       /\ CloseAndEndOfStreamEnd
       /\ (TextTurn /\ ~ws'.last.sent) => ws'.pc = "closed"
       /\ EndsOnlyOn]_vars

\* C33 as the code has it: as above, but a malformed command never ends the
\* connection, also when its error response cannot be sent; the failed sends
\* that end the loop are those of the authentication success response and of
\* the response to a well-formed command.
C33_WebSocketProtocolSendOfResults ==
    [][/\ NoDispatchBeforeAuth
       /\ BadFirstTextEnds
       /\ GoodFirstTextAuthenticates
       /\ StaysAuthenticated
       /\ MalformedCommandKeepsOpen
       /\ CloseAndEndOfStreamEnd
       /\ (TextTurn /\ ~ws'.last.sent /\ ~UndeliveredInvalidFormat) => ws'.pc = "closed"
       /\ (TextTurn /\ ws'.last.sent /\ (ws.authenticated \/ ParseAuthMessage(ws'.last.text).ok))
             => ws'.pc = "open"
       /\ EndsOnlyOn]_vars

\* C33 witness: an authenticated connection is still open after the error
\* response to a malformed command could not be sent
C33_Witness ==
    /\ ws.pc = "open" /\ ws.authenticated
    /\ ws.last.event = "text"
    /\ ~ParseWebSocketMessage(ws.last.text).ok
    /\ ws.last.response = Some(InvalidFormat)
    /\ ~ws.last.sent

\* the sum of a sequence of amounts, in the integers
RECURSIVE ExactSum(_)
ExactSum(amounts) ==
    IF amounts = <<>> THEN Limbs(0)
    ELSE Add(MsatOrZero(Head(amounts)), ExactSum(Tail(amounts)))

\* the amounts of a sequence of records, field by field
RECURSIVE ConfirmedAmounts(_)
ConfirmedAmounts(outputs) ==
    IF outputs = <<>> THEN <<>>
    ELSE (IF Head(outputs).status = 1 THEN <<Head(outputs).amount_msat>> ELSE <<>>)
         \o ConfirmedAmounts(Tail(outputs))

OwnAmounts(channels) == [i \in DOMAIN channels |-> channels[i].our_amount_msat]

\* C34: for every answer of list_funds, get_balance reports as
\* onchain_balance_msat the sum of the amounts of the outputs of status 1, as
\* channel_balance_msat the sum of our_amount_msat of all channels, as
\* total_balance_msat their sum and as each *_sat value the msat value divided
\* by 1000 and rounded down, where the sums are the sums in the integers and
\* are below 2^64.
C34_BalanceSums ==
    (cx.pc = "balance" /\ cx.funds_response.ok)
    => LET funds == cx.funds_response.v
           onchain == ExactSum(ConfirmedAmounts(funds.outputs))
           channel == ExactSum(OwnAmounts(funds.channels))
           total == Add(onchain, channel)
       IN /\ Less(total, TWO_64)
          /\ cx.out = Ok([onchain_balance_sat |-> DivThousand(onchain),
                          onchain_balance_msat |-> onchain,
                          channel_balance_sat |-> DivThousand(channel),
                          channel_balance_msat |-> channel,
                          total_balance_sat |-> DivThousand(total),
                          total_balance_msat |-> total])

====
